---- MODULE Spec2Model ----
(***************************************************************************)
(* A model of uiget: the component installer (installer.rs), the registry  *)
(* manager (registry.rs) and the package-manager detector                  *)
(* (package_manager.rs).                                                   *)
(*                                                                         *)
(* Representation of the program's data:                                   *)
(*   - Option<T>: the empty sequence is None, <<x>> is Some(x).            *)
(*   - a path or an alias ("src/lib/components/ui") is the sequence of its *)
(*     '/'-separated segments; the empty sequence is the empty string.     *)
(*   - a file's content is the sequence of its tokens; "\n" ends a line,   *)
(*     " " is one whitespace character, every other token is a run of      *)
(*     non-whitespace text.                                                *)
(*   - a short string that the code inspects character by character (the   *)
(*     user agent, the packageManager field) is the sequence of its        *)
(*     characters.                                                         *)
(***************************************************************************)
EXTENDS Integers, Sequences, FiniteSets, TLC

VARIABLES
  config,            \* ComponentInstaller.config: aliases and typescript
  typescript_paths,  \* ComponentInstaller.typescript_paths: Option<ResolvedPaths.paths>
  package_manager,   \* ComponentInstaller.package_manager: Option<Detection>
  disk,              \* the project's files: path -> content
  down,              \* the registries whose transport fails at the moment
  stack,             \* the frames of install_component_inner, innermost last
  outcome,           \* how the current or the last install_component call stands
  trace,             \* the steps the current or the last install_component call took
  wrote,             \* path -> content last written by that call
  inst,              \* the arguments of that call and the disk it started from
  repeat,            \* whether that call repeats the call before it, nothing changed between
  edits,             \* the user's edits since the last install_component call
  regChanged,        \* whether the registries changed since that call
  chk,               \* the last is_component_outdated call and what it returned
  nInstalls,         \* install_component calls so far
  denv,              \* the environment detect_package_manager reads
  detection,         \* what detect_package_manager returned
  spawned,           \* the subprocesses started by the current or the last call
  host,              \* what the operating system does with the subprocesses
  status,            \* what execute_package_manager_command returned
  registry_manager,  \* RegistryManager: the registries and which of them answer
  auto,              \* what fetch_component_auto returned, and whom it asked
  tsfiles,           \* the tsconfig files of the project, by the path that names them
  call,              \* the call made of the installer or the configuration
  answer             \* what that call returned

vars ==
  <<config, typescript_paths, package_manager, disk, down, stack, outcome, trace,
    wrote, inst, repeat, edits, regChanged, chk, nInstalls, denv, detection,
    spawned, host, status, registry_manager, auto, tsfiles, call, answer>>

\* what the install of a component neither reads nor writes
aside ==
  <<denv, detection, host, status, registry_manager, auto, tsfiles, call, answer>>

----------------------------------------------------------------------------
\* Option<T>

None == <<>>

Some(x) == <<x>>

IsSome(o) == o /= <<>>

Unwrap(o) == o[1]

UnwrapOr(o, d) == IF o /= <<>> THEN o[1] ELSE d

----------------------------------------------------------------------------
\* Sequences and strings

RECURSIVE Concat(_)
Concat(ss) == IF ss = <<>> THEN <<>> ELSE Head(ss) \o Concat(Tail(ss))

\* str::starts_with on '/'-separated segments
StartsWith(p, q) == Len(q) <= Len(p) /\ SubSeq(p, 1, Len(q)) = q

\* str::strip_prefix followed by trim_start_matches('/')
StripPrefix(p, q) == SubSeq(p, Len(q) + 1, Len(p))

\* str::replace(from, to) where from is one segment and to a path
RECURSIVE ReplaceSeg(_, _, _)
ReplaceSeg(p, from, to) ==
  IF p = <<>> THEN <<>>
  ELSE (IF Head(p) = from THEN to ELSE <<Head(p)>>) \o ReplaceSeg(Tail(p), from, to)

\* str::replace(from, to) on a content: every token `from` becomes the tokens `to`
RECURSIVE ReplaceTok(_, _, _)
ReplaceTok(c, from, to) ==
  IF c = <<>> THEN <<>>
  ELSE (IF Head(c) = from THEN to ELSE <<Head(c)>>) \o ReplaceTok(Tail(c), from, to)

\* a path written out inside a content: its segments with "/" between them
RECURSIVE PathText(_)
PathText(p) ==
  IF p = <<>> THEN <<>>
  ELSE IF Len(p) = 1 THEN <<p[1]>>
  ELSE <<p[1], "/">> \o PathText(Tail(p))

IsWs(t) == t = " "


IsSpace(t) == t = " " \/ t = "\n"

IsQuote(t) == t = "'"

RemoveAt(s, i) == SubSeq(s, 1, i - 1) \o SubSeq(s, i + 1, Len(s))

InsertAt(s, i, t) == SubSeq(s, 1, i - 1) \o <<t>> \o SubSeq(s, i, Len(s))

\* every enumeration of the finite set S: the orders a HashMap may iterate in
RECURSIVE Perms(_)
Perms(S) ==
  IF S = {} THEN {<<>>}
  ELSE UNION {{<<x>> \o p : p \in Perms(S \ {x})} : x \in S}

----------------------------------------------------------------------------
\* File names: format!("{}.{}", stem, ext) over the file names of the model

NameParts ==
  [f \in {"button.tsx", "card.tsx", "index.ts", "dialog.tsx", "use-toggle.ts",
          "badge.tsx", "index.svelte", "button.css", "button.test.tsx",
          "types.d.ts", "card.js.map", ".gitkeep", "menu.tsx"} |->
     CASE f = "button.tsx" -> <<"button", "tsx">>
       [] f = "card.tsx" -> <<"card", "tsx">>
       [] f = "index.ts" -> <<"index", "ts">>
       [] f = "dialog.tsx" -> <<"dialog", "tsx">>
       [] f = "use-toggle.ts" -> <<"use-toggle", "ts">>
       [] f = "index.svelte" -> <<"index", "svelte">>
       [] f = "button.css" -> <<"button", "css">>
       [] f = "button.test.tsx" -> <<"button.test", "tsx">>
       [] f = "types.d.ts" -> <<"types.d", "ts">>
       [] f = "card.js.map" -> <<"card.js", "map">>
       [] f = ".gitkeep" -> <<"", "gitkeep">>
       [] f = "menu.tsx" -> <<"menu", "tsx">>
       [] OTHER -> <<"badge", "tsx">>]

\* the segment stem.ext, or "" when the model has no such file name
Dotted(stem, ext) ==
  IF \E f \in DOMAIN NameParts : NameParts[f] = <<stem, ext>>
  THEN CHOOSE f \in DOMAIN NameParts : NameParts[f] = <<stem, ext>>
  ELSE ""

----------------------------------------------------------------------------
\* Configurations (Config, AliasesConfig)

\* tests::create_test_config
TestConfig ==
  [aliases |-> [components |-> <<"src", "lib", "components">>,
                utils |-> <<"src", "lib", "utils">>,
                ui |-> Some(<<"src", "lib", "components", "ui">>),
                hooks |-> None,
                lib |-> Some(<<"src", "lib">>)],
   typescript |-> FALSE]

\* Config::default
DefaultConfig ==
  [aliases |-> [components |-> <<"$lib", "components">>,
                utils |-> <<"$lib", "utils">>,
                ui |-> Some(<<"$lib", "components", "ui">>),
                hooks |-> Some(<<"$lib", "hooks">>),
                lib |-> Some(<<"$lib">>)],
   typescript |-> TRUE]

\* the path-mapping tables resolve_typescript_paths can yield for a configuration:
\* none when TypeScript is off or tsconfig.json is absent, else the resolved table,
\* here the one of a tsconfig.json that maps $lib and $lib/* to ./src/lib
TsPathTables(cfg) ==
  IF cfg.typescript
  THEN {None, Some(<<<<(<<"$lib">>), (<<"src", "lib">>)>>>>)}
  ELSE {None}

\* the same table in every order its HashMap may iterate in
Orderings(tsp) ==
  IF tsp = None THEN {None}
  ELSE {Some([i \in 1..Len(p) |-> Unwrap(tsp)[p[i]]]) : p \in Perms(1..Len(Unwrap(tsp)))}

is_typescript_enabled == config.typescript

----------------------------------------------------------------------------
\* The registries (RegistryManager.registries) and what they serve

Registries == {"default", "@acme"}

PlainContent == <<"x", "\n", " ", "y", " ", "z", "\n">>

UtilsContent == <<"import", " ", "'", "$UTILS$", ".js", "'", "\n", " ", "a", " ", "b">>

ComponentsContent == <<"import", " ", "'", "$COMPONENTS$", "/", "card", "'", "\n", "c", " ", "d">>

HooksContent == <<"$HOOKS$", "\n", " ", "$LIB$", " ", "h">>

AcmeContent == <<"acme", " ", "x">>

File(target, path, content) == [content |-> content, target |-> target, path |-> path]

Comp(name, type, deps, dev, regdeps, files) ==
  [name |-> name, component_type |-> type, dependencies |-> deps,
   dev_dependencies |-> dev, registry_dependencies |-> regdeps, files |-> files,
   registry |-> None]

Button ==
  Comp("button", Some("registry:ui"), Some(<<"clsx">>), None, None,
       <<File(Some(<<"button", "button.tsx">>), None, PlainContent)>>)

Card ==
  Comp("card", Some("registry:ui"), None, None, Some(<<"button">>),
       <<File(Some(<<"card", "card.tsx">>), None, UtilsContent),
         File(Some(<<>>), Some(<<"card", "index.ts">>), PlainContent)>>)

Dialog ==
  Comp("dialog", Some("registry:ui"), Some(<<"clsx">>), Some(<<"vitest">>),
       Some(<<"card">>),
       <<File(Some(<<"ui", "dialog.tsx">>), None, ComponentsContent)>>)

UseToggle ==
  Comp("use-toggle", Some("registry:hook"), None, Some(<<"vitest">>),
       Some(<<"use-toggle">>),
       <<File(None, Some(<<"use-toggle.ts">>), HooksContent)>>)

AcmeButton ==
  Comp("button", None, None, None, Some(<<"badge">>),
       <<File(Some(<<"button", "button.tsx">>), None, AcmeContent)>>)

AcmeBadge ==
  Comp("badge", Some("registry:ui"), None, None, Some(<<"button", "icon">>),
       <<File(Some(<<"badge.tsx">>), None, AcmeContent)>>)

AcmeMenu ==
  Comp("menu", Some("registry:ui"), None, None, Some(<<"badge", "badge">>),
       <<File(Some(<<"menu.tsx">>), None, AcmeContent)>>)

\* what each registry serves. In "default" dialog needs card and card needs button,
\* and use-toggle needs itself; in "@acme" button needs badge and badge needs button
\* (a cycle) and icon, which no registry serves, and menu lists badge twice
Served(ns) ==
  IF ns = "default" THEN {Button, Card, Dialog, UseToggle}
  ELSE IF ns = "@acme" THEN {AcmeButton, AcmeBadge, AcmeMenu}
  ELSE {}

Names == {"button", "card", "dialog", "use-toggle", "badge"}

\* the names install_component is called with
InstallNames == Names \cup {"menu"}

NsArgs == {None, Some("@acme")}


----------------------------------------------------------------------------
\* registry.rs

\* ComponentFile::get_target_path: target unless missing or empty, else path, else ""
get_target_path(file) ==
  IF IsSome(file.target) /\ Unwrap(file.target) /= <<>> THEN Unwrap(file.target)
  ELSE IF IsSome(file.path) /\ Unwrap(file.path) /= <<>> THEN Unwrap(file.path)
  ELSE <<>>

\* RegistryClient::fetch_component: Some(component) tagged with the namespace, None
\* when the request fails or the registry has no such component
client_fetch_component(ns, name) ==
  IF ns \in down \/ ~(\E c \in Served(ns) : c.name = name) THEN None
  ELSE Some([(CHOOSE c \in Served(ns) : c.name = name) EXCEPT !.registry = Some(ns)])

\* RegistryManager::fetch_component: an unknown namespace is an error
fetch_component(ns, name) ==
  IF ns \notin Registries THEN None ELSE client_fetch_component(ns, name)

\* auto_order as it would be if the other registries were asked before the default ones
auto_order_OthersFirst(registries, others) ==
  others \o SelectSeq(<<"default", "@default">>, LAMBDA n : n \in registries)

\* the order in which fetch_component_auto asks the registries: "default" and
\* "@default" where configured, then the others in the order the HashMap yields them
auto_order(registries, others) ==
  SelectSeq(<<"default", "@default">>, LAMBDA n : n \in registries) \o others

\* asks the registries of `order` one after the other until one answers
RECURSIVE Ask(_, _, _)
Ask(order, answers, contacted) ==
  IF order = <<>> THEN [got |-> None, contacted |-> contacted]
  ELSE IF IsSome(answers[Head(order)])
  THEN [got |-> answers[Head(order)], contacted |-> Append(contacted, Head(order))]
  ELSE Ask(Tail(order), answers, Append(contacted, Head(order)))

\* the first registry of `order` that serves the component
FirstFetch(order, name) ==
  Ask(order, [ns \in Registries |-> fetch_component(ns, name)], <<>>).got

\* RegistryManager::fetch_component_auto: "default", "@default", then the other
\* registries in the order `others` the HashMap yields them
fetch_component_auto(name, others) == FirstFetch(auto_order(Registries, others), name)

\* the orders in which the registries other than the default ones may be iterated
OtherOrders == Perms(Registries \ {"default", "@default"})

\* Fetch as it would be if a failed fetch from the given namespace were followed by
\* the search through every registry
Fetch_ThenAuto(nsArg, name, others) ==
  IF IsSome(nsArg) /\ IsSome(fetch_component(Unwrap(nsArg), name))
  THEN fetch_component(Unwrap(nsArg), name)
  ELSE fetch_component_auto(name, others)

\* the fetch of install_component_inner and is_component_outdated
Fetch(nsArg, name, others) ==
  IF IsSome(nsArg) THEN fetch_component(Unwrap(nsArg), name)
  ELSE fetch_component_auto(name, others)

----------------------------------------------------------------------------
\* installer.rs: aliases and paths

\* get_alias_for_component_type as it would be if the category were not looked at
get_alias_for_component_type_Components(component_type) == config.aliases.components

\* installer.rs 75-98
get_alias_for_component_type(component_type) ==
  LET a == config.aliases IN
  CASE component_type = Some("registry:hook") -> UnwrapOr(a.hooks, a.components)
    [] component_type = Some("registry:ui") -> UnwrapOr(a.ui, a.components)
    [] component_type = Some("registry:util") -> a.utils
    [] component_type = Some("registry:lib") -> UnwrapOr(a.lib, a.components)
    [] OTHER -> a.components

create_component_context(component) ==
  [name |-> component.name, component_type |-> component.component_type,
   registry |-> component.registry]

\* resolve_path_manually as it would be if the lib alias of the configuration were not
\* looked at
resolve_path_manually_DefaultLib(ui_path) ==
  IF \E i \in 1..Len(ui_path) : ui_path[i] = "$lib"
  THEN ReplaceSeg(ui_path, "$lib", <<"src", "lib">>)
  ELSE ui_path

\* installer.rs 690-703
resolve_path_manually(ui_path) ==
  IF \E i \in 1..Len(ui_path) : ui_path[i] = "$lib"
  THEN ReplaceSeg(ui_path, "$lib", UnwrapOr(config.aliases.lib, <<"src", "lib">>))
  ELSE ui_path

\* the first entry of the table, in iteration order, whose alias starts ui_path
RECURSIVE resolve_path_with_typescript(_, _)
resolve_path_with_typescript(ui_path, ts_paths) ==
  IF ts_paths = <<>> THEN resolve_path_manually(ui_path)
  ELSE IF StartsWith(ui_path, Head(ts_paths)[1])
  THEN Head(ts_paths)[2] \o StripPrefix(ui_path, Head(ts_paths)[1])
  ELSE resolve_path_with_typescript(ui_path, Tail(ts_paths))

ResolveAlias(alias_path) ==
  IF IsSome(typescript_paths)
  THEN resolve_path_with_typescript(alias_path, Unwrap(typescript_paths))
  ELSE resolve_path_manually(alias_path)

\* resolve_file_path as it would be if the target were not placed under an alias root
resolve_file_path_NoRoot(target, context) == target

\* resolve_file_path as it would be if the target were never normalized
resolve_file_path_KeepTarget(target, context) ==
  ResolveAlias(get_alias_for_component_type(context.component_type)) \o target

\* the path, relative to the current directory, a component file is installed at
resolve_file_path(target, context) ==
  LET resolved_alias_path ==
        ResolveAlias(get_alias_for_component_type(context.component_type))
      normalized_target ==
        IF /\ context.component_type = Some("registry:ui")
           /\ Len(target) >= 2 /\ target[1] = "ui"
           /\ Len(resolved_alias_path) >= 2
           /\ resolved_alias_path[Len(resolved_alias_path)] = "ui"
        THEN Tail(target)
        ELSE target
  IN resolved_alias_path \o normalized_target

----------------------------------------------------------------------------
\* The file system

IsFile(d, p) == p \in DOMAIN d

IsDir(d, p) == \E f \in DOMAIN d : Len(f) > Len(p) /\ StartsWith(f, p)

Exists(d, p) == IsFile(d, p) \/ IsDir(d, p)

\* fs::create_dir_all(parent) then fs::write(path): fails when the path is a directory
\* or an ancestor of it is a file
CanWrite(d, p) ==
  /\ p /= <<>>
  /\ ~IsDir(d, p)
  /\ \A k \in 1..(Len(p) - 1) : ~IsFile(d, SubSeq(p, 1, k))

WriteFile(d, p, c) == [q \in DOMAIN d \cup {p} |-> IF q = p THEN c ELSE d[q]]

----------------------------------------------------------------------------
\* installer.rs: placeholders

resolve_import_path_with_typescript(import_path, ts_paths) ==
  IF \E i \in 1..Len(ts_paths) : StartsWith(import_path, ts_paths[i][1])
  THEN import_path
  ELSE <<>>

resolve_import_path_manually(import_path) ==
  IF import_path /= <<>> /\ import_path[1] = "$lib" /\ IsSome(config.aliases.lib)
  THEN ReplaceSeg(import_path, "$lib", Unwrap(config.aliases.lib))
  ELSE import_path

\* the shared tail of the get_*_import_path functions: the table first, then `fallback`
ImportPath(alias, fallback) ==
  IF /\ IsSome(typescript_paths)
     /\ resolve_import_path_with_typescript(alias, Unwrap(typescript_paths)) /= <<>>
  THEN resolve_import_path_with_typescript(alias, Unwrap(typescript_paths))
  ELSE fallback

get_utils_import_path ==
  ImportPath(config.aliases.utils, resolve_import_path_manually(config.aliases.utils))

get_components_import_path_with_context(context) ==
  LET components_path ==
        IF IsSome(context)
        THEN get_alias_for_component_type(Unwrap(context).component_type)
        ELSE config.aliases.components
  IN ImportPath(components_path, resolve_import_path_manually(components_path))

get_hooks_import_path_with_context(context) ==
  LET hooks_path ==
        IF IsSome(context) /\ Unwrap(context).component_type /= Some("registry:hook")
        THEN get_alias_for_component_type(Unwrap(context).component_type)
        ELSE UnwrapOr(config.aliases.hooks, config.aliases.components)
  IN ImportPath(hooks_path, resolve_import_path_manually(hooks_path))

get_lib_import_path_with_context(context) ==
  LET lib_path ==
        IF IsSome(context) /\ Unwrap(context).component_type /= Some("registry:lib")
        THEN get_alias_for_component_type(Unwrap(context).component_type)
        ELSE UnwrapOr(config.aliases.lib, config.aliases.components)
  IN ImportPath(lib_path, lib_path)

\* the index of the first quote at or after i, 0 when there is none
NextQuote(c, i) ==
  IF \E j \in i..Len(c) : IsQuote(c[j])
  THEN CHOOSE j \in i..Len(c) : IsQuote(c[j]) /\ \A k \in i..(j - 1) : ~IsQuote(c[k])
  ELSE 0

\* the index of the first token at or after i that is not whitespace, Len(c)+1 if none
RECURSIVE SkipSpace(_, _)
SkipSpace(c, i) == IF i <= Len(c) /\ IsSpace(c[i]) THEN SkipSpace(c, i + 1) ELSE i

\* (import\s+[^"']*["'])([^"']+)\.js(["']), and the same for export: from the keyword
\* and whitespace to the next quote, then a specifier that ends in .js at the quote
\* after it; all matches from position i on, left to right, lose their .js
RECURSIVE RemoveJsStatic(_, _, _)
RemoveJsStatic(c, i, kw) ==
  IF i > Len(c) THEN c
  ELSE
    LET q1 == IF c[i] = kw /\ i < Len(c) /\ IsSpace(c[i + 1]) THEN NextQuote(c, i + 2) ELSE 0
        q2 == IF q1 = 0 THEN 0 ELSE NextQuote(c, q1 + 1)
    IN IF q2 /= 0 /\ q2 - q1 >= 3 /\ c[q2 - 1] = ".js"
       THEN RemoveJsStatic(RemoveAt(c, q2 - 1), q2, kw)
       ELSE RemoveJsStatic(c, i + 1, kw)

\* (import\s*\(\s*["'])([^"']+)\.js(["']\s*\))
RECURSIVE RemoveJsDynamic(_, _)
RemoveJsDynamic(c, i) ==
  IF i > Len(c) THEN c
  ELSE
    LET p == IF c[i] = "import" THEN SkipSpace(c, i + 1) ELSE 0
        q1 == IF p /= 0 /\ p <= Len(c) /\ c[p] = "(" THEN SkipSpace(c, p + 1) ELSE 0
        q2 == IF q1 /= 0 /\ q1 <= Len(c) /\ IsQuote(c[q1]) THEN NextQuote(c, q1 + 1) ELSE 0
        r == IF q2 /= 0 THEN SkipSpace(c, q2 + 1) ELSE 0
    IN IF q2 /= 0 /\ q2 - q1 >= 3 /\ c[q2 - 1] = ".js" /\ r <= Len(c) /\ c[r] = ")"
       THEN RemoveJsDynamic(RemoveAt(c, q2 - 1), r)
       ELSE RemoveJsDynamic(c, i + 1)


\* the tokens of the shape \$[A-Z_]+\$ that a content of the model can hold
PlaceholderShaped == {"$UTILS$", "$COMPONENTS$", "$HOOKS$", "$LIB$", "$STYLE$"}

\* \$([A-Z_]+)\$\.js\b replaced by "$$1$", which the regex crate expands to the
\* literal text $1$
RECURSIVE RemoveJsPlaceholder(_)
RemoveJsPlaceholder(c) ==
  IF Len(c) < 2 THEN c
  ELSE IF c[1] \in PlaceholderShaped /\ c[2] = ".js"
  THEN <<"$1$">> \o RemoveJsPlaceholder(SubSeq(c, 3, Len(c)))
  ELSE <<c[1]>> \o RemoveJsPlaceholder(Tail(c))

remove_js_extensions_from_imports(content) ==
  RemoveJsPlaceholder(
    RemoveJsDynamic(RemoveJsStatic(RemoveJsStatic(content, 1, "import"), 1, "export"), 1))

process_placeholders(content, context) ==
  LET c1 == ReplaceTok(content, "$UTILS$", PathText(get_utils_import_path))
      c2 == ReplaceTok(c1, "$COMPONENTS$",
                       PathText(get_components_import_path_with_context(context)))
      c3 == ReplaceTok(c2, "$HOOKS$", PathText(get_hooks_import_path_with_context(context)))
      c4 == ReplaceTok(c3, "$LIB$", PathText(get_lib_import_path_with_context(context)))
  IN IF is_typescript_enabled THEN remove_js_extensions_from_imports(c4) ELSE c4

----------------------------------------------------------------------------
\* installer.rs: installed and outdated

\* str::lines
RECURSIVE Lines(_)
Lines(c) ==
  IF c = <<>> THEN <<>>
  ELSE IF \E i \in 1..Len(c) : c[i] = "\n"
  THEN LET i == CHOOSE j \in 1..Len(c) : c[j] = "\n" /\ \A k \in 1..(j - 1) : c[k] /= "\n"
       IN <<SubSeq(c, 1, i - 1)>> \o Lines(SubSeq(c, i + 1, Len(c)))
  ELSE <<c>>

\* str::trim of one line
RECURSIVE Trim(_)
Trim(l) ==
  IF l = <<>> THEN l
  ELSE IF IsWs(l[1]) THEN Trim(Tail(l))
  ELSE IF IsWs(l[Len(l)]) THEN Trim(SubSeq(l, 1, Len(l) - 1))
  ELSE l

\* Vec<&str>::join("\n")
RECURSIVE JoinLines(_)
JoinLines(ls) ==
  IF ls = <<>> THEN <<>>
  ELSE IF Len(ls) = 1 THEN ls[1]
  ELSE ls[1] \o <<"\n">> \o JoinLines(Tail(ls))

\* normalize_content as it would be if the lines were not trimmed
normalize_content_NoTrim(content) ==
  JoinLines(SelectSeq(Lines(process_placeholders(content, None)), LAMBDA l : l /= <<>>))

normalize_content(content) ==
  LET ls == Lines(process_placeholders(content, None))
      trimmed == [i \in 1..Len(ls) |-> Trim(ls[i])]
  IN JoinLines(SelectSeq(trimmed, LAMBDA l : l /= <<>>))

\* the directory is_component_installed and get_installed_components scan
components_dir == ResolveAlias(UnwrapOr(config.aliases.ui, config.aliases.components))

Extensions == <<"tsx", "ts", "jsx", "js", "svelte", "vue">>

is_component_installed(d, component_name) ==
  \/ IsDir(d, components_dir \o <<component_name>>)
  \/ \E i \in 1..Len(Extensions) :
       /\ Dotted(component_name, Extensions[i]) /= ""
       /\ IsFile(d, components_dir \o <<Dotted(component_name, Extensions[i])>>)

\* whether some file of the fetched component is missing or differs, file by file
FilesDiffer(d, registry_component) ==
  LET ctx == create_component_context(registry_component) IN
  \E i \in 1..Len(registry_component.files) :
    LET local_path == resolve_file_path(get_target_path(registry_component.files[i]), ctx)
    IN \/ ~Exists(d, local_path)
       \/ ~IsFile(d, local_path)
       \/ normalize_content(d[local_path])
            /= normalize_content(registry_component.files[i].content)

\* is_component_outdated as it would be if a failed fetch counted as outdated
is_component_outdated_FetchErr(d, component_name, registry_namespace, others) ==
  IF ~is_component_installed(d, component_name) THEN FALSE
  ELSE IF ~IsSome(Fetch(registry_namespace, component_name, others)) THEN TRUE
  ELSE FilesDiffer(d, Unwrap(Fetch(registry_namespace, component_name, others)))

\* Ok(bool): the function returns no error on any path of the model
is_component_outdated(d, component_name, registry_namespace, others) ==
  IF ~is_component_installed(d, component_name) THEN FALSE
  ELSE IF ~IsSome(Fetch(registry_namespace, component_name, others)) THEN FALSE
  ELSE FilesDiffer(d, Unwrap(Fetch(registry_namespace, component_name, others)))


----------------------------------------------------------------------------
\* Bounds

MaxInstalls == 2

MaxEdits == 1

MaxDepth == 3

----------------------------------------------------------------------------
\* install_component, step by step

Frame(name, ns, force, skip_deps) ==
  [name |-> name, ns |-> ns, force |-> force, skip_deps |-> skip_deps, pc |-> "fetch",
   component |-> None, dep |-> 1, file |-> 1]

Top == stack[Len(stack)]

SetTop(f) == [stack EXCEPT ![Len(stack)] = f]

Event(kind) == <<Len(stack), kind, Top.name>>

\* Fail as it would be if the error of a dependency ended the dependency's call only
Fail_InnermostOnly(kind) ==
  IF Len(stack) = 1
  THEN stack' = <<>> /\ outcome' = kind
  ELSE /\ stack' = [SubSeq(stack, 1, Len(stack) - 1) EXCEPT ![Len(stack) - 1].pc = "done"]
       /\ outcome' = outcome

\* the ? operator: the error leaves every enclosing install_component_inner
Fail(kind) ==
  /\ stack' = <<>>
  /\ outcome' = kind

RegistryDeps(component) == UnwrapOr(component.registry_dependencies, <<>>)

Deps(component) == UnwrapOr(component.dependencies, <<>>)

DevDeps(component) == UnwrapOr(component.dev_dependencies, <<>>)

\* DepSkipDeps as it would be if the recursive call handed its own flag on
DepSkipDeps_Inherited(parent_skip_deps) == parent_skip_deps

\* DepSkipDeps as it would be if the recursive call expanded dependencies again
DepSkipDeps_Never(parent_skip_deps) == FALSE

\* the skip_deps argument of the recursive call for a dependency
DepSkipDeps(parent_skip_deps) == TRUE

\* AfterFiles as it would be if install_dependencies did not look at the package manager
AfterFiles_AnyManager(component) ==
  IF Deps(component) = <<>> /\ DevDeps(component) = <<>> THEN "done"
  ELSE IF Deps(component) /= <<>> THEN "pkg" ELSE "dev"

\* AfterFiles as it would be if the dev dependencies were installed first
AfterFiles_DevFirst(component) ==
  IF (Deps(component) = <<>> /\ DevDeps(component) = <<>>) \/ package_manager = None
  THEN "done"
  ELSE IF DevDeps(component) /= <<>> THEN "dev" ELSE "pkg"

\* where a frame stands once its files are written: install_dependencies is called if
\* a dependency list is not empty, and returns at once with no package manager
AfterFiles(component) ==
  IF (Deps(component) = <<>> /\ DevDeps(component) = <<>>) \/ package_manager = None
  THEN "done"
  ELSE IF Deps(component) /= <<>> THEN "pkg" ELSE "dev"

AfterPkg(component) == IF DevDeps(component) /= <<>> THEN "dev" ELSE "done"

\* where a frame stands once its registry dependencies are installed
AfterDeps(component) == IF component.files = <<>> THEN AfterFiles(component) ELSE "files"

\* AfterFetch as it would be if the files were written without the dependencies
AfterFetch_NoDeps(component, skip_deps) == AfterDeps(component)

\* where a frame stands once its component is fetched
AfterFetch(component, skip_deps) ==
  IF ~skip_deps /\ RegistryDeps(component) /= <<>> THEN "deps" ELSE AfterDeps(component)

\* PackageManager::install_command and install_dev_command: the program, cmd[0]
install_command(pm) ==
  CASE pm = "Pnpm" -> "pnpm"
    [] pm \in {"YarnClassic", "YarnBerry"} -> "yarn"
    [] pm = "Bun" -> "bun"
    [] OTHER -> "npm"

\* the strategies in the order detect_execution_strategy tests them
Strategies == <<"direct", "npx", "npm_exec", "local_bin", "corepack", "cmd", "powershell">>

\* how a subprocess ends: exit code 0, another exit code, or it cannot be started
Outcomes == {"ok", "nonzero", "spawn_err"}

\* the real commands a call may run: one per strategy, and the final direct attempt
Attempts == {Strategies[i] : i \in DOMAIN Strategies} \cup {"final"}

\* a subprocess: a --version test of a strategy ("probe"), is_command_available
\* ("available") or the real command ("run")
Launch(kind, via) == [kind |-> kind, via |-> via]

\* Tested as it would be if every strategy were tested for every program
Tested_Always(os, program, strategy) == TRUE

\* what stands before the && of a test: whether the strategy is tested at all
Tested(os, program, strategy) ==
  CASE strategy = "npx" -> program = "pnpm"
    [] strategy = "npm_exec" -> program \in {"pnpm", "yarn"}
    [] strategy = "local_bin" -> os.local_exists
    [] strategy \in {"cmd", "powershell"} -> os.windows
    [] OTHER -> TRUE

\* the tests from the i-th strategy on, up to the first that succeeds
RECURSIVE TestFrom(_, _, _, _)
TestFrom(os, program, i, launched) ==
  IF i > Len(Strategies) THEN [strategy |-> None, spawned |-> launched]
  ELSE IF ~Tested(os, program, Strategies[i]) THEN TestFrom(os, program, i + 1, launched)
  ELSE IF Strategies[i] \in os.probe_ok
  THEN [strategy |-> Some(Strategies[i]),
        spawned |-> Append(launched, Launch("probe", Strategies[i]))]
  ELSE TestFrom(os, program, i + 1, Append(launched, Launch("probe", Strategies[i])))

detect_execution_strategy(os, program) == TestFrom(os, program, 1, <<>>)

\* the first attempt of the fallback: the command as it is
DirectAttempt(os, launched) ==
  [done |-> os.run["direct"] = "ok",
   spawned |-> Append(launched, Launch("run", "direct"))]

\* a later attempt of the fallback through npx or npm exec: only for the programs it
\* applies to, and only if is_command_available(command)
ShimAttempt(st, os, applies, command, via) ==
  IF st.done \/ ~applies THEN st
  ELSE IF command \notin os.available
  THEN [st EXCEPT !.spawned = Append(@, Launch("available", command))]
  ELSE [done |-> os.run[via] = "ok",
        spawned |-> st.spawned \o <<Launch("available", command), Launch("run", via)>>]

\* the attempt through cmd /C, compiled in on Windows only
CmdAttempt(st, os) ==
  IF st.done \/ ~os.windows THEN st
  ELSE [done |-> os.run["cmd"] = "ok", spawned |-> Append(st.spawned, Launch("run", "cmd"))]

\* direct, npx, npm exec, cmd, and the final attempt with the original command
execute_with_fallback_strategies(os, program, launched) ==
  LET direct == DirectAttempt(os, launched)
      npx == ShimAttempt(direct, os, program = "pnpm", "npx", "npx")
      npm_exec == ShimAttempt(npx, os, program \in {"pnpm", "yarn"}, "npm", "npm_exec")
      cmd == CmdAttempt(npm_exec, os)
  IN IF cmd.done THEN [status |-> "ok", spawned |-> cmd.spawned]
     ELSE [status |-> os.run["final"],
           spawned |-> Append(cmd.spawned, Launch("run", "direct"))]

\* the real command under the detected strategy, or the fallback when none was detected
execute_package_manager_command(os, program) ==
  LET detected == detect_execution_strategy(os, program) IN
  IF IsSome(detected.strategy)
  THEN [status |-> os.run[Unwrap(detected.strategy)],
        spawned |-> Append(detected.spawned, Launch("run", Unwrap(detected.strategy)))]
  ELSE execute_with_fallback_strategies(os, program, detected.spawned)

\* Ok(()) only if the command could be run and ended with exit code 0
install_dependency_type(os, pm) ==
  LET r == execute_package_manager_command(os, install_command(pm)) IN
  [ok |-> r.status = "ok", spawned |-> r.spawned]

\* a host where every program runs, and a host where none does
WorkingHost ==
  [windows |-> FALSE, local_exists |-> FALSE, probe_ok |-> {"direct"},
   available |-> {"npx", "npm"}, run |-> [a \in Attempts |-> "ok"]]

BrokenHost ==
  [windows |-> FALSE, local_exists |-> FALSE, probe_ok |-> {},
   available |-> {}, run |-> [a \in Attempts |-> "nonzero"]]

InstallHosts == {WorkingHost, BrokenHost}

\* a new process calls install_component(name, ns, force, skip_deps)
InstallComponent(name, ns, force, skip_deps) ==
  /\ stack = <<>>
  /\ nInstalls < MaxInstalls
  /\ nInstalls' = nInstalls + 1
  /\ stack' = <<Frame(name, ns, force, skip_deps)>>
  /\ outcome' = "running"
  /\ trace' = <<>>
  /\ wrote' = <<>>
  /\ \E others \in OtherOrders :
       inst' = [name |-> name, ns |-> ns, force |-> force, skip_deps |-> skip_deps,
                others |-> others, disk0 |-> disk]
  /\ repeat' = /\ outcome = "ok" /\ edits = <<>> /\ ~regChanged
               /\ inst.name = name /\ inst.ns = ns /\ inst.force = force
               /\ inst.skip_deps = skip_deps
  /\ edits' = <<>>
  /\ regChanged' = FALSE
  /\ chk' = None
  /\ typescript_paths' \in Orderings(typescript_paths)
  /\ spawned' = <<>>
  /\ UNCHANGED <<config, package_manager, disk, down, aside>>

Stepping == UNCHANGED <<config, typescript_paths, package_manager, down, inst, repeat,
                        edits, regChanged, chk, nInstalls, aside>>

\* installer.rs 156-167: fetch the component
FetchStep ==
  /\ stack /= <<>> /\ Top.pc = "fetch"
  /\ LET got == Fetch(Top.ns, Top.name, inst.others) IN
       IF IsSome(got)
       THEN /\ stack' = SetTop([Top EXCEPT !.component = got,
                                           !.pc = AfterFetch(Unwrap(got), Top.skip_deps)])
            /\ outcome' = outcome
       ELSE Fail("err_fetch")
  /\ trace' = Append(trace, Event("fetch"))
  /\ UNCHANGED <<disk, wrote, spawned>>
  /\ Stepping

\* installer.rs 169-177: the recursive call for the next registry dependency
DepStep ==
  /\ stack /= <<>> /\ Top.pc = "deps"
  /\ Len(stack) < MaxDepth
  /\ stack' = Append(stack,
                Frame(RegistryDeps(Unwrap(Top.component))[Top.dep], Top.ns, Top.force,
                      DepSkipDeps(Top.skip_deps)))
  /\ UNCHANGED <<outcome, trace, disk, wrote, spawned>>
  /\ Stepping

\* install_file as it would be if force were not looked at
install_file_NoForce(d, file, context, force) ==
  LET target_path == resolve_file_path(get_target_path(file), context) IN
  IF Exists(d, target_path) THEN [err |-> "err_exists", disk |-> d, path |-> target_path]
  ELSE IF ~CanWrite(d, target_path) THEN [err |-> "err_io", disk |-> d, path |-> target_path]
  ELSE [err |-> "",
        disk |-> WriteFile(d, target_path, process_placeholders(file.content, Some(context))),
        path |-> target_path]

\* install_file as it would be if an existing file were not looked for
install_file_Overwrite(d, file, context, force) ==
  LET target_path == resolve_file_path(get_target_path(file), context) IN
  IF ~CanWrite(d, target_path) THEN [err |-> "err_io", disk |-> d, path |-> target_path]
  ELSE [err |-> "",
        disk |-> WriteFile(d, target_path, process_placeholders(file.content, Some(context))),
        path |-> target_path]

\* what install_file does to the disk: the error it returns, or the disk it leaves
install_file(d, file, context, force) ==
  LET target_path == resolve_file_path(get_target_path(file), context) IN
  IF Exists(d, target_path) /\ ~force THEN [err |-> "err_exists", disk |-> d, path |-> target_path]
  ELSE IF ~CanWrite(d, target_path) THEN [err |-> "err_io", disk |-> d, path |-> target_path]
  ELSE [err |-> "",
        disk |-> WriteFile(d, target_path, process_placeholders(file.content, Some(context))),
        path |-> target_path]

\* installer.rs 580-590: install_file for the next file of the component
WriteStep ==
  /\ stack /= <<>> /\ Top.pc = "files"
  /\ LET component == Unwrap(Top.component)
         r == install_file(disk, component.files[Top.file],
                           create_component_context(component), Top.force)
     IN IF r.err = ""
        THEN /\ disk' = r.disk
             /\ wrote' = WriteFile(wrote, r.path, r.disk[r.path])
             /\ stack' = SetTop([Top EXCEPT
                            !.file = @ + 1,
                            !.pc = IF Top.file = Len(component.files)
                                   THEN AfterFiles(component) ELSE "files"])
             /\ outcome' = outcome
             /\ trace' = Append(trace, Event("write"))
        ELSE /\ Fail(r.err)
             /\ UNCHANGED <<disk, wrote, trace>>
  /\ UNCHANGED spawned
  /\ Stepping

\* installer.rs 1642-1645 and 1656-1700: the package manager adds the dependencies;
\* the command ends with exit code 0 (success) or not, or cannot be run at all
PkgStep(os) ==
  /\ stack /= <<>> /\ Top.pc = "pkg"
  /\ IsSome(package_manager)
  /\ LET r == install_dependency_type(os, Unwrap(package_manager)) IN
       /\ IF r.ok
          THEN /\ stack' = SetTop([Top EXCEPT !.pc = AfterPkg(Unwrap(Top.component))])
               /\ outcome' = outcome
          ELSE Fail("err_pkg")
       /\ spawned' = spawned \o r.spawned
  /\ trace' = Append(trace, Event("pkg"))
  /\ UNCHANGED <<disk, wrote>>
  /\ Stepping

\* installer.rs 1647-1650: the same for the dev dependencies
DevStep(os) ==
  /\ stack /= <<>> /\ Top.pc = "dev"
  /\ IsSome(package_manager)
  /\ LET r == install_dependency_type(os, Unwrap(package_manager)) IN
       /\ IF r.ok
          THEN /\ stack' = SetTop([Top EXCEPT !.pc = "done"])
               /\ outcome' = outcome
          ELSE Fail("err_pkg")
       /\ spawned' = spawned \o r.spawned
  /\ trace' = Append(trace, Event("dev"))
  /\ UNCHANGED <<disk, wrote>>
  /\ Stepping

\* installer.rs 196-201: Ok(()) to the caller, which goes on to its next dependency
ReturnStep ==
  /\ stack /= <<>> /\ Top.pc = "done"
  /\ trace' = Append(trace, Event("done"))
  /\ IF Len(stack) = 1
     THEN /\ stack' = <<>>
          /\ outcome' = "ok"
     ELSE LET parent == stack[Len(stack) - 1]
              component == Unwrap(parent.component)
          IN /\ stack' = [SubSeq(stack, 1, Len(stack) - 1) EXCEPT
                            ![Len(stack) - 1] =
                              [parent EXCEPT
                                 !.dep = @ + 1,
                                 !.pc = IF parent.dep = Len(RegistryDeps(component))
                                        THEN AfterDeps(component) ELSE "deps"]]
             /\ outcome' = outcome
  /\ UNCHANGED <<disk, wrote, spawned>>
  /\ Stepping

InstallSteps ==
  \/ FetchStep
  \/ DepStep
  \/ WriteStep
  \/ \E os \in InstallHosts : PkgStep(os)
  \/ \E os \in InstallHosts : DevStep(os)
  \/ ReturnStep

----------------------------------------------------------------------------
\* The installer as constructed (ComponentInstaller::new) in a project

UserContent == <<"mine">>

\* the projects the model starts from: configuration, path-mapping table, whether a
\* package manager was detected, and the files already there
Projects ==
  {[config |-> TestConfig, tsp |-> None, pm |-> Some("Npm"), disk |-> <<>>],
   [config |-> DefaultConfig, tsp |-> Some(<<<<(<<"$lib">>), (<<"src", "lib">>)>>>>),
    pm |-> Some("Pnpm"), disk |-> <<>>],
   [config |-> DefaultConfig, tsp |-> None, pm |-> None, disk |-> <<>>],
   [config |-> TestConfig, tsp |-> None, pm |-> None,
    disk |-> (<<"src", "lib", "components", "ui", "card", "index.ts">> :> UserContent)]}

\* the installer's own state machine does not look at the environment of the detection
NoDetectEnv ==
  [canonical |-> TRUE, start |-> <<"a", "b">>, manifestDirs |-> {}, ua |-> None,
   manifest |-> [state |-> "unreadable", field |-> None],
   yarn |-> {}, pnpm_workspace |-> FALSE,
   mtime |-> [l \in {"yarn.lock", "pnpm-lock.yaml", "package-lock.json", "bun.lockb"} |-> 0],
   racing |-> {}]

InitInstaller ==
  /\ \E p \in Projects :
       /\ config = p.config
       /\ typescript_paths = p.tsp
       /\ package_manager = p.pm
       /\ disk = p.disk
  /\ down = {}
  /\ stack = <<>>
  /\ outcome = "none"
  /\ trace = <<>>
  /\ wrote = <<>>
  /\ inst = [name |-> "", ns |-> None, force |-> FALSE, skip_deps |-> FALSE,
             others |-> <<>>, disk0 |-> <<>>]
  /\ repeat = FALSE
  /\ edits = <<>>
  /\ regChanged = FALSE
  /\ chk = None
  /\ nInstalls = 0

\* a registry manager with the registries of the projects above
NoManager == [registries |-> Registries, others |-> <<"@acme">>, serving |-> {}]

Init ==
  /\ InitInstaller
  /\ denv = NoDetectEnv
  /\ detection = None
  /\ spawned = <<>>
  /\ host = WorkingHost
  /\ status = None
  /\ registry_manager = NoManager
  /\ auto = None
  /\ tsfiles = <<>>
  /\ call = None
  /\ answer = None

Next ==
  \/ \E name \in InstallNames, ns \in NsArgs, force \in BOOLEAN, skip_deps \in BOOLEAN :
       InstallComponent(name, ns, force, skip_deps)
  \/ InstallSteps

Spec == Init /\ [][Next]_vars


----------------------------------------------------------------------------
\* What the claims speak of

Finished == outcome \notin {"none", "running"}

Failed == outcome \in {"err_fetch", "err_exists", "err_io", "err_pkg"}

\* the component the call was asked to install, as the registry serves it
RootFetched == IsSome(Fetch(inst.ns, inst.name, inst.others))

Root == Unwrap(Fetch(inst.ns, inst.name, inst.others))

SeqToSet(q) == {q[i] : i \in 1..Len(q)}

\* the registry dependencies a component of that name declares, as the call sees them
DepSet(name) ==
  IF IsSome(Fetch(inst.ns, name, inst.others))
  THEN SeqToSet(RegistryDeps(Unwrap(Fetch(inst.ns, name, inst.others))))
  ELSE {}

RECURSIVE Closure(_, _)
Closure(S, k) ==
  IF k = 0 THEN S ELSE Closure(S \cup UNION {DepSet(n) : n \in S}, k - 1)

\* the names reachable from `name` along registry dependencies
Reachable(name) == Closure(DepSet(name), Cardinality(Names))

\* the dependency graph below the requested component holds a cycle
CycleReachable ==
  \E n \in {inst.name} \cup Reachable(inst.name) : n \in Reachable(n)

KindRank(kind) ==
  CASE kind = "fetch" -> 1
    [] kind = "write" -> 3
    [] kind = "pkg" -> 4
    [] kind = "dev" -> 5
    [] OTHER -> 6

\* the place of an event in the requested component's call: everything a dependency's
\* call does lies between the fetch and the first written file
Rank(e) == IF e[1] = 1 THEN KindRank(e[2]) ELSE 2

EventsAt(depth, kinds) == SelectSeq(trace, LAMBDA e : e[1] = depth /\ e[2] \in kinds)

EventNames(q) == [i \in 1..Len(q) |-> q[i][3]]

\* the call has left the dependency stage of the requested component
PastDeps == EventsAt(1, {"write", "pkg", "dev", "done"}) /= <<>>

\* the call has left the file stage of the requested component
PastFiles == EventsAt(1, {"pkg", "dev", "done"}) /= <<>>

\* every file the call wrote is on disk with the content the call gave it
WrittenFilesKept ==
  \A p \in DOMAIN wrote : IsFile(disk, p) /\ disk[p] = wrote[p]

\* C1: the steps of every install_component call come in the order fetch, registry
\* dependencies (every declared one, in turn, unless skip_deps), files, package
\* dependencies, done, for the requested component and inside each dependency's call;
\* and the files the call wrote stay on disk whatever fails later
C1_StepOrder ==
  outcome /= "none" =>
    /\ \A i, j \in 1..Len(trace) : i < j => Rank(trace[i]) <= Rank(trace[j])
    /\ \A i, j \in 1..Len(trace) :
         (/\ i < j /\ trace[i][1] = 2 /\ trace[j][1] = 2
          /\ \A k \in i..(j - 1) : trace[k][2] /= "done")
         => KindRank(trace[i][2]) <= KindRank(trace[j][2])
    /\ trace /= <<>> => trace[1] = <<1, "fetch", inst.name>>
    /\ inst.skip_deps => \A i \in 1..Len(trace) : trace[i][1] = 1
    /\ (PastDeps /\ ~inst.skip_deps) =>
         EventNames(EventsAt(2, {"done"})) = RegistryDeps(Root)
    /\ PastFiles => Len(EventsAt(1, {"write"})) = Len(Root.files)
    /\ outcome = "ok" => trace[Len(trace)] = <<1, "done", inst.name>>
    /\ WrittenFilesKept

\* a call that installed a dependency, wrote files and then failed
C1_Witness ==
  /\ Failed
  /\ wrote /= <<>>
  /\ EventsAt(2, {"done"}) /= <<>>
  /\ EventsAt(1, {"write"}) /= <<>>

\* the components the call wrote files of
WrittenNames == SeqToSet(EventNames(SelectSeq(trace, LAMBDA e : e[2] = "write")))

\* the components whose install the call completed
DoneNames == SeqToSet(EventNames(SelectSeq(trace, LAMBDA e : e[2] = "done")))

OneLevel == {inst.name} \cup SeqToSet(RegistryDeps(Root))

\* C2: with dependencies not skipped, files are written of the requested component and
\* of its direct registry dependencies only, and a successful call installs exactly
\* those
C2_OneLevel ==
  (outcome /= "none" /\ ~inst.skip_deps /\ RootFetched) =>
    /\ WrittenNames \subseteq OneLevel
    /\ DoneNames \subseteq OneLevel
    /\ outcome = "ok" => WrittenNames = OneLevel /\ DoneNames = OneLevel

\* a successful call whose dependency has a registry dependency of its own that the
\* call did not install
C2_Witness ==
  /\ outcome = "ok" /\ ~inst.skip_deps /\ RootFetched
  /\ \E d \in SeqToSet(RegistryDeps(Root)) : ~(DepSet(d) \subseteq OneLevel)
  /\ WrittenNames = OneLevel

\* C3 as stated: with a cycle in the dependency graph and dependencies not skipped,
\* install_component never reaches Done
C3_CycleNeverDone ==
  (outcome /= "none" /\ ~inst.skip_deps /\ CycleReachable) => outcome /= "ok"

CallEvents(component) == Len(component.files) + 4

RECURSIVE SumEvents(_)
SumEvents(deps) ==
  IF deps = <<>> THEN 0
  ELSE (IF IsSome(Fetch(inst.ns, Head(deps), inst.others))
        THEN CallEvents(Unwrap(Fetch(inst.ns, Head(deps), inst.others)))
        ELSE 1)
       + SumEvents(Tail(deps))

\* C3 as amended: a dependency is installed with skip_deps = TRUE, so the calls nest at
\* most two deep and the call takes a bounded number of steps, cycle or not
C3_BoundedRecursion ==
  /\ Len(stack) <= 2
  /\ Len(stack) = 2 => stack[2].skip_deps
  /\ (outcome /= "none" /\ RootFetched) =>
       Len(trace) <= CallEvents(Root) + SumEvents(RegistryDeps(Root))

\* a call on a cyclic dependency graph that installed a dependency and reached Done
C3_Witness ==
  /\ outcome = "ok" /\ ~inst.skip_deps /\ CycleReachable
  /\ EventsAt(2, {"done"}) /= <<>>

\* the call, or one of the dependencies it installs, declares a file
CallDeclaresFiles ==
  /\ RootFetched
  /\ \/ Root.files /= <<>>
     \/ /\ ~inst.skip_deps
        /\ \E d \in SeqToSet(RegistryDeps(Root)) :
             /\ IsSome(Fetch(inst.ns, d, inst.others))
             /\ Unwrap(Fetch(inst.ns, d, inst.others)).files /= <<>>

\* C4 as stated: a call that repeats a successful call, nothing changed in between and
\* the package manager working as before, succeeds and leaves the files as they were
C4_Idempotent ==
  (repeat /\ Finished /\ outcome /= "err_pkg") => outcome = "ok" /\ disk = inst.disk0

\* C4 as amended: the repeated call leaves every file's content as the first call left
\* it; with force it rewrites the files and ends as the package manager lets it, and
\* without force it fails with the already-exists error at the first file
C4_RepeatedCall ==
  (repeat /\ Finished) =>
    /\ disk = inst.disk0
    /\ inst.force => outcome \in {"ok", "err_pkg"} /\ (outcome = "ok" => WrittenNames /= {})
    /\ (~inst.force /\ CallDeclaresFiles) => outcome = "err_exists" /\ wrote = <<>>

\* a repeated call with force that rewrote the files and succeeded
C4_Witness ==
  /\ repeat /\ outcome = "ok" /\ inst.force
  /\ wrote /= <<>>
  /\ disk = inst.disk0

\* the file install_file is about to install, and where
CurFile == Unwrap(Top.component).files[Top.file]

CurContext == create_component_context(Unwrap(Top.component))

CurPath == resolve_file_path(get_target_path(CurFile), CurContext)

\* C5: when the target path exists and force is false, install_file fails with the
\* already-exists error, the call ends there (no later file is written) and the disk,
\* the existing file and the files written earlier included, stays as it is; when force
\* is true the file is overwritten with the processed registry content
C5_ExistingFile ==
  [][(stack /= <<>> /\ Top.pc = "files" /\ Exists(disk, CurPath)) =>
       IF ~Top.force
       THEN outcome' = "err_exists" /\ stack' = <<>> /\ disk' = disk /\ wrote' = wrote
       ELSE IsFile(disk, CurPath) =>
              /\ outcome' = outcome
              /\ disk' = WriteFile(disk, CurPath,
                                   process_placeholders(CurFile.content, Some(CurContext)))
    ]_vars

\* an already-exists failure at the second file of a component: the user's file is
\* untouched and the first file of the component remains
C5_Witness ==
  /\ outcome = "err_exists"
  /\ EventsAt(1, {"write"}) /= <<>>
  /\ \E p \in DOMAIN disk : p \notin DOMAIN wrote /\ disk[p] = UserContent
  /\ WrittenFilesKept


----------------------------------------------------------------------------
\* The outdated check, between installs: the user edits files, registries go down and
\* come back, and the CLI asks whether a component is outdated

EditKinds == {"nonws", "lead", "trail", "blank", "inner"}

\* edits that change nothing but blank lines and the whitespace at the ends of lines
OuterWsKinds == {"lead", "trail", "blank"}

\* the positions of a blank between two tokens of a line that are not whitespace
InnerBlanks(c) ==
  {i \in 2..(Len(c) - 1) : c[i] = " " /\ ~IsSpace(c[i - 1]) /\ ~IsSpace(c[i + 1])}

\* a content after the user's edit: a token more at its end, a blank before its first
\* line, a blank after its last line, an empty line on top, or a blank within a line
\* made two
ApplyEdit(c, kind) ==
  CASE kind = "nonws" -> c \o <<"edited">>
    [] kind = "lead" -> <<" ">> \o c
    [] kind = "trail" -> c \o <<" ">>
    [] kind = "blank" -> <<"\n">> \o c
    [] OTHER ->
         LET i == CHOOSE j \in InnerBlanks(c) : \A k \in InnerBlanks(c) : j <= k
         IN InsertAt(c, i, " ")

\* the install has ended and the CLI has not yet asked: the model follows a project up
\* to the answer of is_component_outdated
Idle == stack = <<>> /\ outcome /= "none" /\ chk = None

OutdatedFrame == UNCHANGED <<config, typescript_paths, package_manager, stack, outcome,
                             trace, wrote, inst, repeat, nInstalls, spawned, aside>>

\* the user edits, in an editor, a file that the install wrote
UserEdit(p, kind) ==
  /\ Idle
  /\ Len(edits) < MaxEdits
  /\ IsFile(disk, p) /\ p \in DOMAIN wrote
  /\ kind = "inner" => InnerBlanks(disk[p]) /= {}
  /\ disk' = WriteFile(disk, p, ApplyEdit(disk[p], kind))
  /\ edits' = Append(edits, [path |-> p, kind |-> kind])
  /\ UNCHANGED <<down, regChanged, chk>>
  /\ OutdatedFrame

\* a registry stops answering, or answers again
RegistryChange(ns) ==
  /\ Idle
  /\ down' = IF ns \in down THEN down \ {ns} ELSE down \cup {ns}
  /\ regChanged' = TRUE
  /\ UNCHANGED <<disk, edits, chk>>
  /\ OutdatedFrame

\* the CLI calls is_component_outdated(component_name, registry_namespace)
CheckOutdated(component_name, registry_namespace) ==
  /\ Idle
  /\ chk' = Some([name |-> component_name,
                  ns |-> registry_namespace,
                  installed |-> is_component_installed(disk, component_name),
                  fetched |-> IsSome(Fetch(registry_namespace, component_name, inst.others)),
                  result |-> is_component_outdated(disk, component_name,
                                                   registry_namespace, inst.others)])
  /\ UNCHANGED <<disk, down, edits, regChanged>>
  /\ OutdatedFrame

NextOutdated ==
  \/ \E name \in Names, ns \in NsArgs, force \in BOOLEAN, skip_deps \in BOOLEAN :
       outcome = "none" /\ InstallComponent(name, ns, force, skip_deps)
  \/ InstallSteps
  \/ \E p \in DOMAIN disk, kind \in EditKinds : UserEdit(p, kind)
  \/ \E ns \in Registries : RegistryChange(ns)
  \/ \E name \in Names, ns \in NsArgs : CheckOutdated(name, ns)

SpecOutdated == Init /\ [][NextOutdated]_vars


----------------------------------------------------------------------------
\* What the claims say of the outdated check

\* where the install wrote the files of the requested component
RootPaths ==
  {resolve_file_path(get_target_path(Root.files[i]), create_component_context(Root)) :
     i \in 1..Len(Root.files)}

\* the CLI has asked about the component the install was asked for, in the same
\* namespace, after a successful install and with the registries as they were
AskedOfInstalled ==
  /\ outcome = "ok" /\ ~regChanged
  /\ IsSome(chk)
  /\ Unwrap(chk).name = inst.name /\ Unwrap(chk).ns = inst.ns

\* C6: a component that was just installed, nothing edited and the registry unchanged,
\* is reported not outdated
C6_FreshNotOutdated ==
  (AskedOfInstalled /\ edits = <<>>) => ~Unwrap(chk).result

\* C7: after an install, one edit that changes the non-whitespace content of a file of
\* the component makes is_component_outdated answer outdated
C7_EditDetected ==
  (/\ AskedOfInstalled
   /\ Len(edits) = 1 /\ edits[1].kind = "nonws" /\ edits[1].path \in RootPaths)
  => Unwrap(chk).result

\* the step is an edit, of one of the kinds, to a file of the installed component
EditStep(kinds) ==
  /\ Len(edits') = Len(edits) + 1
  /\ edits'[Len(edits')].kind \in kinds
  /\ outcome = "ok" /\ ~regChanged
  /\ edits'[Len(edits')].path \in RootPaths

C9_NotInstalledOrNoFetch ==
  IsSome(chk) =>
    /\ Unwrap(chk).result \in BOOLEAN
    /\ ~Unwrap(chk).installed => Unwrap(chk).result = FALSE
    /\ (Unwrap(chk).installed /\ ~Unwrap(chk).fetched) => Unwrap(chk).result = FALSE

\* the installed component, edited since, is asked about while its registry is down
C9_Witness ==
  /\ IsSome(chk) /\ outcome = "ok"
  /\ Unwrap(chk).name = inst.name /\ Unwrap(chk).ns = inst.ns
  /\ Unwrap(chk).installed /\ ~Unwrap(chk).fetched
  /\ down /= {}
  /\ \E i \in 1..Len(edits) : edits[i].kind = "nonws"
  /\ Unwrap(chk).result = FALSE


----------------------------------------------------------------------------
\* package_manager.rs: strings, character by character

Upper ==
  <<"A", "B", "C", "D", "E", "F", "G", "H", "I", "J", "K", "L", "M",
    "N", "O", "P", "Q", "R", "S", "T", "U", "V", "W", "X", "Y", "Z">>

Lower ==
  <<"a", "b", "c", "d", "e", "f", "g", "h", "i", "j", "k", "l", "m",
    "n", "o", "p", "q", "r", "s", "t", "u", "v", "w", "x", "y", "z">>

Digits == <<"0", "1", "2", "3", "4", "5", "6", "7", "8", "9">>

IsUpper(c) == \E i \in DOMAIN Upper : Upper[i] = c

IsLetter(c) == IsUpper(c) \/ \E i \in DOMAIN Lower : Lower[i] = c

IsDigit(c) == \E i \in DOMAIN Digits : Digits[i] = c

\* \w of the regex crate, on the characters of the model
IsWord(c) == IsLetter(c) \/ IsDigit(c) \/ c = "_"

DigitVal(c) == (CHOOSE i \in DOMAIN Digits : Digits[i] = c) - 1

\* str::to_lowercase
to_lowercase(str) ==
  [i \in 1..Len(str) |->
     IF IsUpper(str[i]) THEN Lower[CHOOSE k \in DOMAIN Upper : Upper[k] = str[i]]
     ELSE str[i]]

\* str::split(sep): the parts between the separators, empty ones included
RECURSIVE Split(_, _)
Split(str, sep) ==
  IF \E i \in 1..Len(str) : str[i] = sep
  THEN LET i == CHOOSE j \in 1..Len(str) :
                  str[j] = sep /\ \A k \in 1..(j - 1) : str[k] /= sep
       IN <<SubSeq(str, 1, i - 1)>> \o Split(SubSeq(str, i + 1, Len(str)), sep)
  ELSE <<str>>

\* str::split_whitespace: the parts between runs of whitespace, none of them empty
SplitWhitespace(str) == SelectSeq(Split(str, " "), LAMBDA part : part /= <<>>)

RECURSIVE DigitsValue(_, _)
DigitsValue(str, acc) ==
  IF str = <<>> THEN acc ELSE DigitsValue(Tail(str), acc * 10 + DigitVal(Head(str)))

\* str::parse::<u64>: an optional + and then digits, at least one; the strings of the
\* model are too short to overflow
parse_u64(str) ==
  LET digits == IF str /= <<>> /\ Head(str) = "+" THEN Tail(str) ELSE str IN
  IF digits /= <<>> /\ \A i \in 1..Len(digits) : IsDigit(digits[i])
  THEN Some(DigitsValue(digits, 0))
  ELSE None

\* is_semver_gte as it would be if the comparison were strict
is_semver_gte_Strict(ver, maj, min, pat) ==
  LET parts == Split(ver, ".")
      nums == [i \in 1..Len(parts) |-> UnwrapOr(parse_u64(parts[i]), 0)]
      vmaj == IF Len(nums) >= 1 THEN nums[1] ELSE 0
      vmin == IF Len(nums) >= 2 THEN nums[2] ELSE 0
      vpat == IF Len(nums) >= 3 THEN nums[3] ELSE 0
  IN \/ vmaj > maj
     \/ vmaj = maj /\ vmin > min
     \/ vmaj = maj /\ vmin = min /\ vpat > pat

is_semver_gte(ver, maj, min, pat) ==
  LET parts == Split(ver, ".")
      nums == [i \in 1..Len(parts) |-> UnwrapOr(parse_u64(parts[i]), 0)]
      vmaj == IF Len(nums) >= 1 THEN nums[1] ELSE 0
      vmin == IF Len(nums) >= 2 THEN nums[2] ELSE 0
      vpat == IF Len(nums) >= 3 THEN nums[3] ELSE 0
  IN \/ vmaj > maj
     \/ vmaj = maj /\ vmin > min
     \/ vmaj = maj /\ vmin = min /\ vpat >= pat

YarnByVersion(ver) == IF is_semver_gte(ver, 2, 0, 0) THEN "YarnBerry" ELSE "YarnClassic"

parse_user_agent(ua) ==
  LET parts == SplitWhitespace(ua) IN
  IF parts = <<>> THEN None
  ELSE
    LET first == parts[1] IN
    IF ~\E i \in 1..Len(first) : first[i] = "/" THEN None
    ELSE
      LET it == Split(first, "/")
          name == to_lowercase(it[1])
          ver == it[2]
      IN CASE name = <<"p", "n", "p", "m">> -> Some([pm |-> "Pnpm", ver |-> Some(ver)])
           [] name = <<"y", "a", "r", "n">> -> Some([pm |-> YarnByVersion(ver), ver |-> Some(ver)])
           [] name = <<"n", "p", "m">> -> Some([pm |-> "Npm", ver |-> Some(ver)])
           [] name = <<"b", "u", "n">> -> Some([pm |-> "Bun", ver |-> Some(ver)])
           [] OTHER -> None

\* ^(?P<name>[a-zA-Z]+)@(?P<ver>[\w\.\-]+)$
FieldCaptures(pm_str) ==
  LET parts == Split(pm_str, "@") IN
  IF /\ Len(parts) = 2
     /\ parts[1] /= <<>> /\ \A i \in 1..Len(parts[1]) : IsLetter(parts[1][i])
     /\ parts[2] /= <<>>
     /\ \A i \in 1..Len(parts[2]) : IsWord(parts[2][i]) \/ parts[2][i] \in {".", "-"}
  THEN Some([name |-> parts[1], ver |-> parts[2]])
  ELSE None

\* Ok((manager, version)) or the error: the manifest cannot be read, is no JSON object
\* with a string (or no) packageManager, or its packageManager is absent or misshapen
read_package_manager_field(manifest) ==
  IF manifest.state = "unreadable" THEN [ok |-> FALSE, err |-> "Io"]
  ELSE IF manifest.state = "badjson" THEN [ok |-> FALSE, err |-> "BadJson"]
  ELSE IF IsSome(manifest.field) /\ IsSome(FieldCaptures(Unwrap(manifest.field)))
  THEN LET caps == Unwrap(FieldCaptures(Unwrap(manifest.field)))
           name == to_lowercase(caps.name)
       IN [ok |-> TRUE,
           pm |-> CASE name = <<"p", "n", "p", "m">> -> "Pnpm"
                    [] name = <<"n", "p", "m">> -> "Npm"
                    [] name = <<"b", "u", "n">> -> "Bun"
                    [] name = <<"y", "a", "r", "n">> -> YarnByVersion(caps.ver)
                    [] OTHER -> "Unknown",
           ver |-> Some(caps.ver)]
  ELSE [ok |-> FALSE, err |-> "BadJson"]

YarnCandidates == <<".pnp.cjs", ".pnp.loader.mjs", ".pnp.data.json", ".yarnrc.yml", ".yarn">>

\* the first candidate that exists, whatever .yarnrc.yml holds
find_yarn_artifacts(env) ==
  IF \E i \in DOMAIN YarnCandidates : YarnCandidates[i] \in env.yarn
  THEN Some(YarnCandidates[CHOOSE i \in DOMAIN YarnCandidates :
                             /\ YarnCandidates[i] \in env.yarn
                             /\ \A k \in 1..(i - 1) : YarnCandidates[k] \notin env.yarn])
  ELSE None

find_pnpm_artifacts(env) == IF env.pnpm_workspace THEN Some("pnpm-workspace.yaml") ELSE None

LockfileMap ==
  <<<<"YarnClassic", "yarn.lock">>, <<"Pnpm", "pnpm-lock.yaml">>,
    <<"Npm", "package-lock.json">>, <<"Bun", "bun.lockb">>>>

Lockfiles == {LockfileMap[i][2] : i \in DOMAIN LockfileMap}

\* a lockfile exists when it has a modification time
LockExists(env, l) == env.mtime[l] > 0

\* pick_by_lockfiles as it would be if the candidates were sorted the other way round
pick_by_lockfiles_Oldest(env) ==
  LET present == {i \in DOMAIN LockfileMap : LockExists(env, LockfileMap[i][2])} IN
  IF \E i \in present : LockfileMap[i][2] \in env.racing THEN [ok |-> FALSE, det |-> None]
  ELSE IF present = {} THEN [ok |-> TRUE, det |-> None]
  ELSE LET last == CHOOSE i \in present :
                     \A k \in present :
                       \/ env.mtime[LockfileMap[k][2]] > env.mtime[LockfileMap[i][2]]
                       \/ env.mtime[LockfileMap[k][2]] = env.mtime[LockfileMap[i][2]] /\ k <= i
       IN [ok |-> TRUE,
           det |-> Some([manager |-> LockfileMap[last][1], path |-> LockfileMap[last][2]])]

\* pick_by_lockfiles as it would be if the first of the lockfiles modified latest won
pick_by_lockfiles_FirstTied(env) ==
  LET present == {i \in DOMAIN LockfileMap : LockExists(env, LockfileMap[i][2])} IN
  IF \E i \in present : LockfileMap[i][2] \in env.racing THEN [ok |-> FALSE, det |-> None]
  ELSE IF present = {} THEN [ok |-> TRUE, det |-> None]
  ELSE LET first == CHOOSE i \in present :
                      \A k \in present :
                        \/ env.mtime[LockfileMap[k][2]] < env.mtime[LockfileMap[i][2]]
                        \/ env.mtime[LockfileMap[k][2]] = env.mtime[LockfileMap[i][2]] /\ i <= k
       IN [ok |-> TRUE,
           det |-> Some([manager |-> LockfileMap[first][1], path |-> LockfileMap[first][2]])]

\* Err(io) when the metadata of an existing lockfile cannot be read; Ok(None) without
\* lockfiles; else the last, in the order of the map, of the lockfiles modified latest
pick_by_lockfiles(env) ==
  LET present == {i \in DOMAIN LockfileMap : LockExists(env, LockfileMap[i][2])} IN
  IF \E i \in present : LockfileMap[i][2] \in env.racing THEN [ok |-> FALSE, det |-> None]
  ELSE IF present = {} THEN [ok |-> TRUE, det |-> None]
  ELSE LET last == CHOOSE i \in present :
                     \A k \in present :
                       \/ env.mtime[LockfileMap[k][2]] < env.mtime[LockfileMap[i][2]]
                       \/ env.mtime[LockfileMap[k][2]] = env.mtime[LockfileMap[i][2]] /\ k <= i
       IN [ok |-> TRUE,
           det |-> Some([manager |-> LockfileMap[last][1], path |-> LockfileMap[last][2]])]

\* Ok(Detection); arg is what the DetectionSource carries
Detected(project_root, manager, version_hint, source, arg) ==
  [ok |-> TRUE, err |-> "", manager |-> manager, version_hint |-> version_hint,
   source |-> source, arg |-> arg, project_root |-> Some(project_root)]

\* Err(DetectError); arg is what the error carries
DetectFailed(err) ==
  [ok |-> FALSE, err |-> err, manager |-> "", version_hint |-> None, source |-> "",
   arg |-> None, project_root |-> None]

\* Err(DetectError::NoProject(start))
NoProject(start) == [DetectFailed("NoProject") EXCEPT !.arg = Some(start)]

\* Path::parent: None at the file system's root
Parent(dir) == IF dir = <<>> THEN None ELSE Some(SubSeq(dir, 1, Len(dir) - 1))

\* find_project_root as it would be if the search kept the last manifest met on the way up
RECURSIVE find_project_root_Outermost(_, _)
find_project_root_Outermost(manifestDirs, from) ==
  LET above == IF IsSome(Parent(from))
               THEN find_project_root_Outermost(manifestDirs, Unwrap(Parent(from)))
               ELSE None
  IN IF IsSome(above) THEN above
     ELSE IF from \in manifestDirs THEN Some(from) ELSE None

\* the first directory with a package.json, from `from` upwards
RECURSIVE find_project_root(_, _)
find_project_root(manifestDirs, from) ==
  IF from \in manifestDirs THEN Some(from)
  ELSE IF IsSome(Parent(from)) THEN find_project_root(manifestDirs, Unwrap(Parent(from)))
  ELSE None

\* detect_package_manager as it would be if the lockfiles were looked at before the
\* manifest field and the artifacts
detect_package_manager_LockfilesFirst(env) ==
  IF ~env.canonical THEN DetectFailed("Io")
  ELSE IF ~IsSome(find_project_root(env.manifestDirs, env.start)) THEN NoProject(env.start)
  ELSE LET project_root == Unwrap(find_project_root(env.manifestDirs, env.start)) IN
  IF IsSome(env.ua) /\ IsSome(parse_user_agent(Unwrap(env.ua)))
  THEN LET r == Unwrap(parse_user_agent(Unwrap(env.ua)))
       IN Detected(project_root, r.pm, r.ver, "UserAgent", env.ua)
  ELSE IF ~pick_by_lockfiles(env).ok THEN DetectFailed("Io")
  ELSE IF IsSome(pick_by_lockfiles(env).det)
  THEN LET det == Unwrap(pick_by_lockfiles(env).det)
       IN Detected(project_root, det.manager, None, "Lockfile", Some(det.path))
  ELSE IF read_package_manager_field(env.manifest).ok
  THEN LET r == read_package_manager_field(env.manifest)
       IN Detected(project_root, r.pm, r.ver, "PackageJsonField", None)
  ELSE IF IsSome(find_yarn_artifacts(env))
  THEN Detected(project_root, "YarnBerry", None, "YarnArtifacts", find_yarn_artifacts(env))
  ELSE IF IsSome(find_pnpm_artifacts(env))
  THEN Detected(project_root, "Pnpm", None, "PnpmArtifacts", find_pnpm_artifacts(env))
  ELSE Detected(project_root, "Npm", None, "Heuristic", None)

detect_package_manager(env) ==
  IF ~env.canonical THEN DetectFailed("Io")
  ELSE IF ~IsSome(find_project_root(env.manifestDirs, env.start)) THEN NoProject(env.start)
  ELSE LET project_root == Unwrap(find_project_root(env.manifestDirs, env.start)) IN
  IF IsSome(env.ua) /\ IsSome(parse_user_agent(Unwrap(env.ua)))
  THEN LET r == Unwrap(parse_user_agent(Unwrap(env.ua)))
       IN Detected(project_root, r.pm, r.ver, "UserAgent", env.ua)
  ELSE IF read_package_manager_field(env.manifest).ok
  THEN LET r == read_package_manager_field(env.manifest)
       IN Detected(project_root, r.pm, r.ver, "PackageJsonField", None)
  ELSE IF IsSome(find_yarn_artifacts(env))
  THEN Detected(project_root, "YarnBerry", None, "YarnArtifacts", find_yarn_artifacts(env))
  ELSE IF IsSome(find_pnpm_artifacts(env))
  THEN Detected(project_root, "Pnpm", None, "PnpmArtifacts", find_pnpm_artifacts(env))
  ELSE IF ~pick_by_lockfiles(env).ok THEN DetectFailed("Io")
  ELSE IF IsSome(pick_by_lockfiles(env).det)
  THEN LET det == Unwrap(pick_by_lockfiles(env).det)
       IN Detected(project_root, det.manager, None, "Lockfile", Some(det.path))
  ELSE Detected(project_root, "Npm", None, "Heuristic", None)

----------------------------------------------------------------------------
\* The environments a detection runs in

MaxMtime == 2

MaxPath == 2

MaxManifests == 2

\* the directories of the file system: the root <<>> and what lies below it
RECURSIVE DirsOfLen(_)
DirsOfLen(n) ==
  IF n = 0 THEN {<<>>}
  ELSE {Append(d, seg) : d \in DirsOfLen(n - 1), seg \in {"a", "b"}}

Dirs == UNION {DirsOfLen(n) : n \in 0..MaxPath}

UserAgents ==
  {None,
   Some(<<"p", "n", "p", "m", "/", "8", ".", "1", "5", ".", "3", " ", "n", "p", "m", "/", "?", " ", "n", "o", "d", "e", "/", "v", "2", "0">>),
   Some(<<"y", "a", "r", "n", "/", "1", ".", "2", "2", ".", "1", "9", " ", "n", "p", "m", "/", "?">>),
   Some(<<" ", "Y", "a", "r", "n", "/", "3", ".", "6", ".", "1">>),
   Some(<<"d", "e", "n", "o", "/", "1", ".", "0", " ", "x", "6", "4">>)}

ManifestFields ==
  {None,
   Some(<<"p", "n", "p", "m", "@", "8", ".", "1", "5", ".", "4">>),
   Some(<<"y", "a", "r", "n", "@", "1", ".", "2", "2", ".", "1", "9">>),
   Some(<<"y", "a", "r", "n", "@", "3", ".", "5", ".", "1">>),
   Some(<<"y", "a", "r", "n", "@", "l", "a", "t", "e", "s", "t">>),
   Some(<<"d", "e", "n", "o", "@", "1", ".", "0">>),
   Some(<<"p", "n", "p", "m">>),
   Some(<<"B", "u", "n", "@", "1", ".", "1", ".", "8", "-", "r", "c">>),
   Some(<<"y", "a", "r", "n", "@", "2", ".", "0", ".", "0">>),
   Some(<<"y", "a", "r", "n", "@">>)}

Manifests ==
  {[state |-> "unreadable", field |-> None], [state |-> "badjson", field |-> None]}
  \cup {[state |-> "ok", field |-> f] : f \in ManifestFields}

YarnArtifactSets == {{}, {".yarnrc.yml"}, {".pnp.cjs", ".yarn"}}

\* the sets of at most MaxManifests directories that hold a package.json
ManifestDirSets == {m \in SUBSET Dirs : Cardinality(m) <= MaxManifests}

\* an environment: no project at all, or the canonicalize of the start failing; or
\* every combination of the signals in a project found from <<"a", "b">>; or every
\* start and every placing of the manifests with few signals
DetectEnvs(env) ==
  \/ env \in {NoDetectEnv, [NoDetectEnv EXCEPT !.canonical = FALSE]}
  \/ \E ua \in UserAgents, manifest \in Manifests, yarn \in YarnArtifactSets,
        pnpm_workspace \in BOOLEAN, mtime \in [Lockfiles -> 0..MaxMtime],
        racing \in {{}, {"yarn.lock"}} :
       /\ \A l \in racing : mtime[l] > 0
       /\ env = [canonical |-> TRUE, start |-> <<"a", "b">>, manifestDirs |-> {<<"a">>},
                 ua |-> ua, manifest |-> manifest, yarn |-> yarn,
                 pnpm_workspace |-> pnpm_workspace, mtime |-> mtime, racing |-> racing]
  \/ \E from \in Dirs, holders \in ManifestDirSets,
        ua \in {None, Some(<<"y", "a", "r", "n", "/", "1", ".", "2", "2", ".", "1", "9", " ", "n", "p", "m", "/", "?">>)},
        manifest \in {[state |-> "ok", field |-> None],
                      [state |-> "ok", field |-> Some(<<"p", "n", "p", "m", "@", "8", ".", "1", "5", ".", "4">>)]} :
       env = [NoDetectEnv EXCEPT !.start = from, !.manifestDirs = holders, !.ua = ua,
                                 !.manifest = manifest]

InitDetect ==
  /\ config = TestConfig
  /\ typescript_paths = None
  /\ package_manager = None
  /\ disk = <<>>
  /\ down = {}
  /\ stack = <<>>
  /\ outcome = "none"
  /\ trace = <<>>
  /\ wrote = <<>>
  /\ inst = [name |-> "", ns |-> None, force |-> FALSE, skip_deps |-> FALSE,
             others |-> <<>>, disk0 |-> <<>>]
  /\ repeat = FALSE
  /\ edits = <<>>
  /\ regChanged = FALSE
  /\ chk = None
  /\ nInstalls = 0
  /\ DetectEnvs(denv)
  /\ detection = None
  /\ spawned = <<>>
  /\ host = WorkingHost
  /\ status = None
  /\ registry_manager = NoManager
  /\ auto = None
  /\ tsfiles = <<>>
  /\ call = None
  /\ answer = None

\* installer.rs 54-64: ComponentInstaller::new detects the package manager, and goes on
\* without one when the detection fails
NewInstaller ==
  /\ detection = None
  /\ LET result == detect_package_manager(denv) IN
       /\ detection' = Some(result)
       /\ package_manager' = IF result.ok THEN Some(result.manager) ELSE None
  /\ UNCHANGED <<config, typescript_paths, disk, down, stack, outcome, trace, wrote, inst,
                 repeat, edits, regChanged, chk, nInstalls, denv,
                 spawned, host, status, registry_manager, auto, tsfiles, call, answer>>

NextDetect == NewInstaller

SpecDetect == InitDetect /\ [][NextDetect]_vars

----------------------------------------------------------------------------
\* What the claims say of the detection

Det == Unwrap(detection)

\* the starting directory or a directory above it holds a package.json
HasProject == \E k \in 0..Len(denv.start) : SubSeq(denv.start, 1, k) \in denv.manifestDirs

UaMatches == IsSome(denv.ua) /\ IsSome(parse_user_agent(Unwrap(denv.ua)))

FieldMatches == read_package_manager_field(denv.manifest).ok

YarnMatches == IsSome(find_yarn_artifacts(denv))

PnpmMatches == IsSome(find_pnpm_artifacts(denv))

LockMatches == \E l \in Lockfiles : LockExists(denv, l)

\* the provenance each signal gives a detection, in the order of the claim
SignalSource ==
  <<"UserAgent", "PackageJsonField", "YarnArtifacts", "PnpmArtifacts", "Lockfile",
    "Heuristic">>

\* the place, in that order, of the first signal that matches
FirstSignal ==
  IF UaMatches THEN 1
  ELSE IF FieldMatches THEN 2
  ELSE IF YarnMatches THEN 3
  ELSE IF PnpmMatches THEN 4
  ELSE IF LockMatches THEN 5
  ELSE 6

\* what the signal that matches first, alone, says the manager and the version are
SignalAnswer(i) ==
  CASE i = 1 -> LET r == Unwrap(parse_user_agent(Unwrap(denv.ua)))
                IN <<r.pm, r.ver>>
    [] i = 2 -> LET r == read_package_manager_field(denv.manifest)
                IN <<r.pm, r.ver>>
    [] i = 3 -> <<"YarnBerry", None>>
    [] i = 4 -> <<"Pnpm", None>>
    [] i = 5 -> <<Unwrap(pick_by_lockfiles(denv).det).manager, None>>
    [] OTHER -> <<"Npm", None>>

\* C10: in a project, the detection is the answer of the first signal that matches, in
\* the order user agent, packageManager field, Yarn artifacts, pnpm workspace file,
\* lockfiles, fallback: a later signal never decides when an earlier one matches, and
\* the only failure is that of the lockfile step itself, when that step is the first
\* to match; the field pnpm@8.15.4 gives Pnpm with hint 8.15.4 whatever the artifacts
\* and lockfiles are
C10_FirstSignalWins ==
  (IsSome(detection) /\ denv.canonical /\ HasProject) =>
    /\ LET first == FirstSignal IN
         /\ Det.ok =>
              /\ Det.source = SignalSource[first]
              /\ <<Det.manager, Det.version_hint>> = SignalAnswer(first)
         /\ ~Det.ok => first = 5 /\ ~pick_by_lockfiles(denv).ok
    /\ (~UaMatches /\ denv.manifest = [state |-> "ok", field |-> Some(<<"p", "n", "p", "m", "@", "8", ".", "1", "5", ".", "4">>)]) =>
         /\ Det.ok /\ Det.manager = "Pnpm" /\ Det.version_hint = Some(<<"8", ".", "1", "5", ".", "4">>)
         /\ Det.source = "PackageJsonField"

\* the field pnpm@8.15.4 decides although Yarn artifacts, a pnpm workspace file and a
\* newer yarn.lock are there, and a user agent that matches nothing
C10_Witness ==
  /\ IsSome(detection) /\ Det.ok
  /\ IsSome(denv.ua) /\ ~UaMatches
  /\ denv.manifest = [state |-> "ok", field |-> Some(<<"p", "n", "p", "m", "@", "8", ".", "1", "5", ".", "4">>)]
  /\ YarnMatches /\ PnpmMatches
  /\ denv.mtime["yarn.lock"] > denv.mtime["pnpm-lock.yaml"]
  /\ denv.mtime["pnpm-lock.yaml"] > 0
  /\ Det.manager = "Pnpm" /\ Det.source = "PackageJsonField"


\* the detection ran in a project, no user agent matched, and the manifest was read
\* and declares a packageManager string
FieldConsulted ==
  /\ IsSome(detection) /\ denv.canonical /\ HasProject
  /\ ~UaMatches
  /\ denv.manifest.state = "ok" /\ IsSome(denv.manifest.field)

DeclaredField == Unwrap(denv.manifest.field)

AtPositions(str) == {i \in 1..Len(str) : str[i] = "@"}

\* the text before and after the first @ of a string that has one
BeforeAt(str) == SubSeq(str, 1, (CHOOSE i \in AtPositions(str) : \A k \in AtPositions(str) : i <= k) - 1)

AfterAt(str) ==
  SubSeq(str, (CHOOSE i \in AtPositions(str) : \A k \in AtPositions(str) : i <= k) + 1, Len(str))

\* <name>@<version>: one @, letters before it, and after it letters, digits, _ . -
WellFormedField(str) ==
  /\ Cardinality(AtPositions(str)) = 1
  /\ BeforeAt(str) /= <<>> /\ \A i \in 1..Len(BeforeAt(str)) : IsLetter(BeforeAt(str)[i])
  /\ AfterAt(str) /= <<>>
  /\ \A i \in 1..Len(AfterAt(str)) :
       IsLetter(AfterAt(str)[i]) \/ IsDigit(AfterAt(str)[i]) \/ AfterAt(str)[i] \in {"_", ".", "-"}

\* the version starts with a number: digits up to the first dot or the end
RECURSIVE LeadingDigits(_)
LeadingDigits(str) ==
  IF str = <<>> \/ Head(str) = "." THEN <<>>
  ELSE IF IsDigit(Head(str)) /\ LeadingDigits(Tail(str)) /= <<"x">>
  THEN <<Head(str)>> \o LeadingDigits(Tail(str))
  ELSE <<"x">>

NumericMajor(ver) ==
  LeadingDigits(ver) /= <<>> /\ LeadingDigits(ver) /= <<"x">>

\* the major version as a number, 0 when the version does not start with one
MajorOf(ver) == IF NumericMajor(ver) THEN DigitsValue(LeadingDigits(ver), 0) ELSE 0

\* C11 as stated: a declared yarn below 2.0.0 is YarnClassic and from 2.0.0 on
\* YarnBerry, and a string with no @ or with a version that is not numeric does not
\* match the declared-field step
C11_NonNumericFallsThrough ==
  FieldConsulted =>
    /\ (WellFormedField(DeclaredField) /\ NumericMajor(AfterAt(DeclaredField))
        /\ to_lowercase(BeforeAt(DeclaredField)) = <<"y", "a", "r", "n">>)
       => /\ Det.source = "PackageJsonField"
          /\ Det.manager = IF MajorOf(AfterAt(DeclaredField)) >= 2
                           THEN "YarnBerry" ELSE "YarnClassic"
    /\ (AtPositions(DeclaredField) = {} \/ ~NumericMajor(AfterAt(DeclaredField)))
       => Det.source /= "PackageJsonField"

\* C11 as amended: the declared-field step matches exactly the strings of the form
\* <name>@<version> (letters, then @, then letters, digits, _ . -), numeric version or
\* not, and gives the version as the hint; yarn is YarnBerry when the major version is
\* a number of 2 or more and YarnClassic otherwise, a version that is no number
\* (yarn@latest) counting as 0; every other string falls through to the later steps
C11_FieldMapping ==
  FieldConsulted =>
    /\ WellFormedField(DeclaredField) <=> (Det.ok /\ Det.source = "PackageJsonField")
    /\ WellFormedField(DeclaredField) =>
         /\ Det.version_hint = Some(AfterAt(DeclaredField))
         /\ to_lowercase(BeforeAt(DeclaredField)) = <<"y", "a", "r", "n">> =>
              Det.manager = IF MajorOf(AfterAt(DeclaredField)) >= 2
                            THEN "YarnBerry" ELSE "YarnClassic"
    /\ ~WellFormedField(DeclaredField) =>
         Det.source \in {"", "YarnArtifacts", "PnpmArtifacts", "Lockfile", "Heuristic"}

\* yarn@latest is taken as YarnClassic with the hint latest, although lockfiles are there
C11_Witness ==
  /\ FieldConsulted
  /\ DeclaredField = <<"y", "a", "r", "n", "@", "l", "a", "t", "e", "s", "t">>
  /\ LockMatches
  /\ Det.ok /\ Det.manager = "YarnClassic" /\ Det.source = "PackageJsonField"
  /\ Det.version_hint = Some(<<"l", "a", "t", "e", "s", "t">>)


\* C12: once the project root is found, the detection returns a Detection with a
\* concrete manager, whatever the manifest and the lockfiles are like
C12_NeverFailsInProject ==
  (IsSome(detection) /\ denv.canonical /\ HasProject) =>
    /\ Det.ok
    /\ Det.manager \in {"Npm", "YarnClassic", "YarnBerry", "Pnpm", "Bun", "Unknown"}


\* the lockfile step decides: the detection ran in a project and no earlier signal matched
LockfileStepDecides ==
  /\ IsSome(detection) /\ denv.canonical /\ HasProject
  /\ ~UaMatches /\ ~FieldMatches /\ ~YarnMatches /\ ~PnpmMatches

PresentLockfiles == {l \in Lockfiles : denv.mtime[l] > 0}

\* the manager a lockfile belongs to
ManagerOfLockfile(l) ==
  CASE l = "yarn.lock" -> "YarnClassic"
    [] l = "pnpm-lock.yaml" -> "Pnpm"
    [] l = "package-lock.json" -> "Npm"
    [] OTHER -> "Bun"

\* the lockfile modified strictly later than every other lockfile there is
StrictlyNewest(l) ==
  /\ l \in PresentLockfiles
  /\ \A o \in PresentLockfiles \ {l} : denv.mtime[o] < denv.mtime[l]

\* C13: when the lockfile step decides and one of several lockfiles was modified
\* strictly later than the others, the detection is that lockfile's manager, with
\* Lockfile provenance naming the file and no version hint; when a lockfile's metadata
\* cannot be read the step gives its I/O error and never another manager
C13_NewestLockfileWins ==
  LockfileStepDecides =>
    \A l \in Lockfiles :
      (StrictlyNewest(l) /\ Cardinality(PresentLockfiles) >= 2) =>
        IF denv.racing \cap PresentLockfiles = {}
        THEN /\ Det.ok
             /\ Det.manager = ManagerOfLockfile(l)
             /\ Det.source = "Lockfile" /\ Det.arg = Some(l)
             /\ Det.version_hint = None
        ELSE ~Det.ok /\ Det.err = "Io"

\* an older yarn.lock and a newer package-lock.json: Npm through package-lock.json
C13_Witness ==
  /\ LockfileStepDecides
  /\ PresentLockfiles = {"yarn.lock", "package-lock.json"}
  /\ denv.mtime["yarn.lock"] < denv.mtime["package-lock.json"]
  /\ Det.ok /\ Det.manager = "Npm" /\ Det.arg = Some("package-lock.json")


\* C14: the detection's project root is the longest prefix of the starting directory
\* that holds a package.json; when no prefix does, the detection is NoProject carrying
\* the starting directory, whatever the user agent and the other signals say
C14_NearestManifest ==
  (IsSome(detection) /\ denv.canonical) =>
    LET holders == {k \in 0..Len(denv.start) :
                      SubSeq(denv.start, 1, k) \in denv.manifestDirs}
    IN IF holders = {}
       THEN ~Det.ok /\ Det.err = "NoProject" /\ Det.arg = Some(denv.start)
       ELSE /\ Det.ok \/ Det.err = "Io"
            /\ Det.ok => \E k \in holders :
                           /\ \A j \in holders : j <= k
                           /\ Det.project_root = Some(SubSeq(denv.start, 1, k))

\* a start two levels down, with a manifest in its parent and another at the root
C14_Witness ==
  /\ IsSome(detection) /\ denv.canonical
  /\ denv.start = <<"a", "b">> /\ denv.manifestDirs = {<<>>, <<"a">>}
  /\ Det.ok /\ Det.project_root = Some(<<"a">>)


\* what the user-agent step makes of the declared <name>@<version>, read as name/version
AsUserAgent(str) == parse_user_agent(BeforeAt(str) \o <<"/">> \o AfterAt(str))

\* C15: a declared <name>@<version> is mapped as the user-agent step maps name/version:
\* a name that step recognizes gives the same manager and hint from the manifest field,
\* and a name it does not recognize (deno@1.0) leaves the answer to the later steps
C15_FieldMapsAsUserAgent ==
  (FieldConsulted /\ WellFormedField(DeclaredField)) =>
    IF IsSome(AsUserAgent(DeclaredField))
    THEN /\ Det.ok /\ Det.source = "PackageJsonField"
         /\ Det.manager = Unwrap(AsUserAgent(DeclaredField)).pm
         /\ Det.version_hint = Unwrap(AsUserAgent(DeclaredField)).ver
    ELSE Det.source \in {"", "YarnArtifacts", "PnpmArtifacts", "Lockfile", "Heuristic"}


----------------------------------------------------------------------------
\* fetch_component_auto over the registries a configuration may name

RegistryPool == {"default", "@default", "@acme", "@lib"}

AutoNames == {"button", "card"}

\* the registries configured, the order in which the HashMap yields those that are not
\* default ones, and the registries whose fetch of the component succeeds
RegistryManagers ==
  {[registries |-> registries, others |-> others, serving |-> serving] :
     registries \in SUBSET RegistryPool,
     others \in UNION {Perms(o) : o \in SUBSET (RegistryPool \ {"default", "@default"})},
     serving \in SUBSET RegistryPool}

InitAuto ==
  /\ config = TestConfig
  /\ typescript_paths = None
  /\ package_manager = None
  /\ disk = <<>>
  /\ down = {}
  /\ stack = <<>>
  /\ outcome = "none"
  /\ trace = <<>>
  /\ wrote = <<>>
  /\ inst = [name |-> "", ns |-> None, force |-> FALSE, skip_deps |-> FALSE,
             others |-> <<>>, disk0 |-> <<>>]
  /\ repeat = FALSE
  /\ edits = <<>>
  /\ regChanged = FALSE
  /\ chk = None
  /\ nInstalls = 0
  /\ denv = NoDetectEnv
  /\ detection = None
  /\ spawned = <<>>
  /\ host = WorkingHost
  /\ status = None
  /\ registry_manager \in
       {m \in RegistryManagers :
          /\ m.serving \subseteq m.registries
          /\ {m.others[i] : i \in DOMAIN m.others} = m.registries \ {"default", "@default"}}
  /\ auto = None
  /\ tsfiles = <<>>
  /\ call = None
  /\ answer = None

\* registry.rs 400-426: fetch_component_auto(component_name)
FetchComponentAuto(component_name) ==
  /\ auto = None
  /\ LET m == registry_manager
         asked == Ask(auto_order(m.registries, m.others),
                      [ns \in m.registries |->
                         IF ns \in m.serving
                         THEN Some([name |-> component_name, registry |-> Some(ns)])
                         ELSE None],
                      <<>>)
     IN auto' = Some([name |-> component_name, contacted |-> asked.contacted,
                      component |-> asked.got,
                      err |-> IF IsSome(asked.got) THEN None
                              ELSE Some(<<"not found in any registry", component_name>>)])
  /\ UNCHANGED <<config, typescript_paths, package_manager, disk, down, stack, outcome,
                 trace, wrote, inst, repeat, edits, regChanged, chk, nInstalls, denv,
                 detection, spawned, host, status, registry_manager, tsfiles, call,
                 answer>>

NextAuto == \E component_name \in AutoNames : FetchComponentAuto(component_name)

SpecAuto == InitAuto /\ [][NextAuto]_vars

Auto == Unwrap(auto)

\* where a registry stands among those asked, 0 when it was not asked
AskedAt(ns) ==
  IF \E i \in DOMAIN Auto.contacted : Auto.contacted[i] = ns
  THEN CHOOSE i \in DOMAIN Auto.contacted : Auto.contacted[i] = ns
  ELSE 0

\* C16: fetch_component_auto asks no registry twice and none that is not configured;
\* "default" is asked first and "@default" before every other registry; every registry
\* asked before the last one failed; the component is that of the first registry that
\* answers and no registry is asked after it; the call fails, with a not-found error
\* naming the component, exactly when every configured registry was asked and failed
C16_DefaultsFirstThenOthers ==
  IsSome(auto) =>
    LET m == registry_manager
        c == Auto.contacted
    IN /\ \A i, j \in DOMAIN c : c[i] = c[j] => i = j
       /\ \A i \in DOMAIN c : c[i] \in m.registries
       /\ "default" \in m.registries => AskedAt("default") = 1
       /\ \A i \in DOMAIN c : c[i] = "@default" => \A j \in 1..(i - 1) : c[j] = "default"
       /\ \A i \in DOMAIN c : i < Len(c) => c[i] \notin m.serving
       /\ IF m.serving = {}
          THEN /\ Auto.component = None
               /\ Auto.err = Some(<<"not found in any registry", Auto.name>>)
               /\ {c[i] : i \in DOMAIN c} = m.registries
          ELSE /\ Auto.err = None
               /\ c /= <<>> /\ c[Len(c)] \in m.serving
               /\ Auto.component = Some([name |-> Auto.name, registry |-> Some(c[Len(c)])])
               /\ "default" \in m.serving => c = <<"default">>
               /\ ("@default" \in m.serving /\ "default" \notin m.serving) =>
                    c[Len(c)] = "@default"

\* "default" fails, "@default" answers, and the two other registries, of which one
\* would answer too, are not asked
C16_Witness ==
  /\ IsSome(auto)
  /\ registry_manager.registries = RegistryPool
  /\ registry_manager.serving = {"@default", "@acme"}
  /\ Auto.contacted = <<"default", "@default">>
  /\ Auto.component = Some([name |-> Auto.name, registry |-> Some("@default")])


----------------------------------------------------------------------------
\* What the claims say of the package dependencies

\* the frame's component is fetched and all its files are written
FilesWritten(frame) ==
  IsSome(frame.component) /\ frame.file > Len(Unwrap(frame.component).files)

\* C17: in a project where no package manager was detected, no subprocess is ever
\* started and no call fails for its package dependencies: a frame whose files are all
\* written is done, whatever dependencies its component declares, and a call that has
\* written all the files of the requested component ends with Ok
C17_NoManagerNoSubprocess ==
  package_manager = None =>
    /\ spawned = <<>>
    /\ outcome /= "err_pkg"
    /\ \A i \in DOMAIN stack :
         /\ stack[i].pc \notin {"pkg", "dev"}
         /\ FilesWritten(stack[i]) => stack[i].pc = "done"
    /\ (Finished /\ RootFetched) =>
         LET root == Root IN
         (root.files /= <<>> /\ Len(EventsAt(1, {"write"})) = Len(root.files)) =>
           outcome = "ok"

\* dialog, which declares a package and a dev dependency, is installed with its
\* registry dependencies in a project with no package manager
C17_Witness ==
  /\ package_manager = None
  /\ outcome = "ok"
  /\ RootFetched /\ Deps(Root) /= <<>> /\ DevDeps(Root) /= <<>>
  /\ EventsAt(1, {"write"}) /= <<>> /\ WrittenFilesKept
  /\ spawned = <<>>


----------------------------------------------------------------------------
\* execute_package_manager_command on the hosts a project may be installed on

StrategySet == {Strategies[i] : i \in DOMAIN Strategies}

\* the attempts of execute_with_fallback_strategies
FallbackAttempts == {"direct", "npx", "npm_exec", "cmd", "final"}

Managers == {"Npm", "Pnpm", "YarnBerry", "Bun"}

\* hosts where any set of tests succeeds and every command ends alike, and hosts where
\* no test succeeds and each attempt of the fallback ends in its own way
ExecHosts ==
  {[windows |-> windows, local_exists |-> local_exists, probe_ok |-> probe_ok,
    available |-> {"npx", "npm"}, run |-> [a \in Attempts |-> o]] :
     windows \in BOOLEAN, local_exists \in BOOLEAN, probe_ok \in SUBSET StrategySet,
     o \in Outcomes}
  \cup
  {[windows |-> windows, local_exists |-> FALSE, probe_ok |-> {},
    available |-> available,
    run |-> [a \in Attempts |-> IF a \in FallbackAttempts THEN r[a] ELSE "ok"]] :
     windows \in BOOLEAN, available \in SUBSET {"npx", "npm"},
     r \in [FallbackAttempts -> Outcomes]}

InitExec ==
  /\ config = TestConfig
  /\ typescript_paths = None
  /\ package_manager \in {Some(pm) : pm \in Managers}
  /\ disk = <<>>
  /\ down = {}
  /\ stack = <<>>
  /\ outcome = "none"
  /\ trace = <<>>
  /\ wrote = <<>>
  /\ inst = [name |-> "", ns |-> None, force |-> FALSE, skip_deps |-> FALSE,
             others |-> <<>>, disk0 |-> <<>>]
  /\ repeat = FALSE
  /\ edits = <<>>
  /\ regChanged = FALSE
  /\ chk = None
  /\ nInstalls = 0
  /\ denv = NoDetectEnv
  /\ detection = None
  /\ spawned = <<>>
  /\ host \in ExecHosts
  /\ status = None
  /\ registry_manager = NoManager
  /\ auto = None
  /\ tsfiles = <<>>
  /\ call = None
  /\ answer = None

\* installer.rs 1690: execute_package_manager_command(&cmd, &detection.project_root)
ExecutePackageManagerCommand ==
  /\ status = None
  /\ LET r == execute_package_manager_command(host, install_command(Unwrap(package_manager)))
     IN /\ status' = Some(r.status)
        /\ spawned' = r.spawned
  /\ UNCHANGED <<config, typescript_paths, package_manager, disk, down, stack, outcome,
                 trace, wrote, inst, repeat, edits, regChanged, chk, nInstalls, denv,
                 detection, host, registry_manager, auto, tsfiles, call, answer>>

NextExec == ExecutePackageManagerCommand

SpecExec == InitExec /\ [][NextExec]_vars

\* the program that is run
RunProgram == install_command(Unwrap(package_manager))

\* the strategies that apply to the program on the host, in their fixed order
Applicable ==
  SelectSeq(Strategies,
            LAMBDA s : CASE s = "npx" -> RunProgram = "pnpm"
                         [] s = "npm_exec" -> RunProgram \in {"pnpm", "yarn"}
                         [] s \in {"cmd", "powershell"} -> host.windows
                         [] OTHER -> TRUE)

\* the --version test of the strategy succeeds; the local binary has to be there
ProbeSucceeds(s) == s \in host.probe_ok /\ (s = "local_bin" => host.local_exists)

\* the positions in Applicable of the strategies whose test succeeds
Usable == {i \in DOMAIN Applicable : ProbeSucceeds(Applicable[i])}

Probes == SelectSeq(spawned, LAMBDA l : l.kind = "probe")

Runs == SelectSeq(spawned, LAMBDA l : l.kind = "run")

Vias(launches) == [i \in DOMAIN launches |-> launches[i].via]

\* the strategies of a list up to its i-th, a local binary that is not there left out
TestedUpTo(i) ==
  SelectSeq(SubSeq(Applicable, 1, i), LAMBDA s : s /= "local_bin" \/ host.local_exists)

\* C18: the strategies are tested in the order direct, npx (pnpm only), npm exec (pnpm
\* or yarn), local binary, corepack, cmd and powershell (Windows only), each at most
\* once and none after a test that succeeded; when a test succeeds the real command is
\* run once, under the first strategy of that order whose test succeeds, and what it
\* returns is what the caller receives
C18_FirstProbedStrategyRuns ==
  IsSome(status) =>
    /\ \A i \in DOMAIN Probes : i < Len(Probes) => ~ProbeSucceeds(Probes[i].via)
    /\ IF Usable = {}
       THEN Vias(Probes) = TestedUpTo(Len(Applicable))
       ELSE LET first == CHOOSE i \in Usable : \A k \in Usable : i <= k IN
            /\ Vias(Probes) = TestedUpTo(first)
            /\ Runs = <<Launch("run", Applicable[first])>>
            /\ spawned = Probes \o Runs
            /\ status = Some(host.run[Applicable[first]])

\* on Windows the tests of direct, npx, npm exec and the local binary fail, those of
\* corepack and cmd would succeed: pnpm is run through corepack
C18_Witness ==
  /\ IsSome(status)
  /\ RunProgram = "pnpm" /\ host.windows /\ host.local_exists
  /\ host.probe_ok = {"corepack", "cmd"}
  /\ Vias(Probes) = <<"direct", "npx", "npm_exec", "local_bin", "corepack">>
  /\ Runs = <<Launch("run", "corepack")>>

\* C19: when no test succeeds, the real command is attempted under the strategies of
\* the tests, in their order and with no test before an attempt, up to the first
\* attempt that succeeds; if none does, one more direct attempt follows and what it
\* returns is what the caller receives
C19_FallbackSameList ==
  (IsSome(status) /\ Usable = {}) =>
    LET ok == {i \in DOMAIN Applicable : host.run[Applicable[i]] = "ok"} IN
    /\ \A i \in DOMAIN spawned : spawned[i].kind /= "available"
    /\ IF ok /= {}
       THEN /\ Vias(Runs) = SubSeq(Applicable, 1, CHOOSE i \in ok : \A k \in ok : i <= k)
            /\ status = Some("ok")
       ELSE /\ Vias(Runs) = Append(Applicable, "direct")
            /\ status = Some(host.run["final"])

\* C20: a real command that fails is never the last one run, unless it is the final
\* direct attempt that follows the exhausted list: after a spawn error or an exit code
\* other than 0 the next strategy is attempted
C20_FailureAdvances ==
  IsSome(status) =>
    \A i \in DOMAIN Runs :
      (i = Len(Runs) /\ Unwrap(status) /= "ok") =>
        /\ i > 1
        /\ Runs[i].via = "direct"

----------------------------------------------------------------------------
\* config.rs: the path mappings of tsconfig.json.  Alias keys, targets and base URLs are
\* strings of characters; a tsconfig file is named by its place in the chain of extends,
\* 1 being tsconfig.json itself, and every file lies in the project directory.

\* the longest chain of tsconfig files through extends
MaxChain == 3

Ok(value) == [ok |-> TRUE, value |-> value]
Err(err) == [ok |-> FALSE, err |-> err]

EndsWith(str, pat) ==
  Len(pat) <= Len(str) /\ SubSeq(str, Len(str) - Len(pat) + 1, Len(str)) = pat

\* str::trim_end_matches(pat): the pattern is removed from the end as often as it is there
RECURSIVE trim_end_matches(_, _)
trim_end_matches(str, pat) ==
  IF EndsWith(str, pat)
  THEN trim_end_matches(SubSeq(str, 1, Len(str) - Len(pat)), pat)
  ELSE str

\* config.rs 342, 345 as they would be if nothing were trimmed
CleanWildcard_Keep(str) == str

\* config.rs 342, 345: trim_end_matches("/*").trim_end_matches("*")
CleanWildcard(str) == trim_end_matches(trim_end_matches(str, <<"/", "*">>), <<"*">>)

\* Path::components on a Unix path: the root if the path is absolute, then the parts
\* between the separators, none of them empty
Components(path) ==
  (IF path /= <<>> /\ Head(path) = "/" THEN << <<"/">> >> ELSE <<>>)
    \o SelectSeq(Split(path, "/"), LAMBDA part : part /= <<>>)

\* Path::join: an absolute path replaces the base
PathJoin(base, path) ==
  IF path /= <<>> /\ Head(path) = "/" THEN path
  ELSE IF base = <<>> \/ base[Len(base)] = "/" THEN base \o path
  ELSE base \o <<"/">> \o path

RECURSIVE JoinParts(_)
JoinParts(parts) ==
  IF parts = <<>> THEN <<>>
  ELSE IF Len(parts) = 1 THEN parts[1]
  ELSE parts[1] \o <<"/">> \o JoinParts(Tail(parts))

\* config.rs 388-422: simplify_path(path)
RECURSIVE SimplifyComponents(_, _)
SimplifyComponents(components, acc) ==
  IF components = <<>> THEN acc
  ELSE LET component == Head(components) IN
       SimplifyComponents(Tail(components),
         CASE component = <<".", ".">> ->
                IF acc /= <<>> THEN SubSeq(acc, 1, Len(acc) - 1) ELSE acc
           [] component = <<".">> -> acc
           [] component = <<"/">> -> <<>>
           [] OTHER -> Append(acc, component))

simplify_path(path) ==
  LET components == SimplifyComponents(Components(path), <<>>) IN
  IF components = <<>> THEN <<".">> ELSE JoinParts(components)

\* config.rs 340-377: one entry of resolve_path_mappings.  The configuration lies in the
\* project directory, so config_dir is empty; the simplified path has lost its root, so
\* the current directory is never a prefix of it; a simplified path never starts with ./
ResolveTarget(target, base_url) ==
  simplify_path(PathJoin(PathJoin(<<>>, base_url), CleanWildcard(target)))

\* config.rs 330-384: resolve_path_mappings(paths, config_path, base_url), the HashMap of
\* the paths being iterated in the given order
RECURSIVE resolve_path_mappings(_, _, _)
resolve_path_mappings(paths, base_url, order) ==
  IF order = <<>> THEN <<>>
  ELSE LET alias == Head(order)
           rest == resolve_path_mappings(paths, base_url, Tail(order))
           clean_alias == CleanWildcard(alias)
           entry == (clean_alias :> ResolveTarget(paths[alias][1], base_url))
       IN IF paths[alias] = <<>> THEN rest
          \* HashMap::insert: the entry inserted last replaces an earlier one
          ELSE IF \E later \in DOMAIN rest : later = clean_alias THEN rest
          ELSE entry @@ rest

\* config.rs 303-323 as it would be if the entries of the extended file won
merge_ParentWins(tsconfig, extended_config) ==
  IF extended_config.compiler_options = None THEN tsconfig
  ELSE IF tsconfig.compiler_options = None
  THEN [tsconfig EXCEPT !.compiler_options = extended_config.compiler_options]
  ELSE LET compiler_options == Unwrap(tsconfig.compiler_options)
           extended_compiler_options == Unwrap(extended_config.compiler_options)
           current_paths == UnwrapOr(compiler_options.paths, <<>>)
       IN [tsconfig EXCEPT !.compiler_options = Some(
             [paths |-> IF extended_compiler_options.paths = None
                        THEN compiler_options.paths
                        ELSE Some(Unwrap(extended_compiler_options.paths) @@ current_paths),
              base_url |-> IF extended_compiler_options.base_url = None
                           THEN compiler_options.base_url
                           ELSE extended_compiler_options.base_url])]

\* config.rs 303-323: the compiler options of the extended file are merged into those of
\* the file that extends it
merge(tsconfig, extended_config) ==
  IF extended_config.compiler_options = None THEN tsconfig
  ELSE IF tsconfig.compiler_options = None
  THEN [tsconfig EXCEPT !.compiler_options = extended_config.compiler_options]
  ELSE LET compiler_options == Unwrap(tsconfig.compiler_options)
           extended_compiler_options == Unwrap(extended_config.compiler_options)
           \* get_or_insert_with(HashMap::new)
           current_paths == UnwrapOr(compiler_options.paths, <<>>)
       IN [tsconfig EXCEPT !.compiler_options = Some(
             [paths |-> IF extended_compiler_options.paths = None
                        THEN compiler_options.paths
                        \* entry(key).or_insert(value)
                        ELSE Some(current_paths @@ Unwrap(extended_compiler_options.paths)),
              base_url |-> IF compiler_options.base_url = None
                           THEN extended_compiler_options.base_url
                           ELSE compiler_options.base_url])]

\* config.rs 300 as it would be if the extended file were read without being looked for
ExtendedExists_Unchecked(files, extended_config_path) == TRUE

\* config.rs 300: extended_config_path.exists()
ExtendedExists(files, extended_config_path) == extended_config_path \in DOMAIN files

\* config.rs 289-327: resolve_tsconfig_with_extends(config_path)
RECURSIVE resolve_tsconfig_with_extends(_, _)
resolve_tsconfig_with_extends(files, config_path) ==
  IF config_path \notin DOMAIN files THEN Err("Failed to read tsconfig.json")
  ELSE IF ~files[config_path].parses THEN Err("Failed to parse tsconfig.json")
  ELSE LET tsconfig == [extends |-> files[config_path].extends,
                        compiler_options |-> files[config_path].compiler_options]
       IN IF tsconfig.extends = None \/ ~ExtendedExists(files, Unwrap(tsconfig.extends))
          THEN Ok(tsconfig)
          ELSE LET extended_config ==
                     resolve_tsconfig_with_extends(files, Unwrap(tsconfig.extends))
               IN IF ~extended_config.ok THEN extended_config
                  ELSE Ok(merge(tsconfig, extended_config.value))

\* the keys of the merged paths, which resolve_path_mappings iterates over
MergedKeys(files, config_path) ==
  LET tsconfig == resolve_tsconfig_with_extends(files, config_path) IN
  IF tsconfig.ok /\ tsconfig.value.compiler_options /= None
     /\ Unwrap(tsconfig.value.compiler_options).paths /= None
  THEN DOMAIN Unwrap(Unwrap(tsconfig.value.compiler_options).paths)
  ELSE {}

\* config.rs 264-286: resolve_tsconfig_paths(config_path)
resolve_tsconfig_paths(files, config_path, order) ==
  IF config_path \notin DOMAIN files THEN Ok(None)
  ELSE LET tsconfig == resolve_tsconfig_with_extends(files, config_path) IN
       IF ~tsconfig.ok THEN tsconfig
       ELSE IF tsconfig.value.compiler_options = None THEN Ok(None)
       ELSE LET compiler_options == Unwrap(tsconfig.value.compiler_options) IN
            IF compiler_options.paths = None THEN Ok(None)
            ELSE LET base_url == UnwrapOr(compiler_options.base_url, <<".">>) IN
                 Ok(Some([paths |-> resolve_path_mappings(Unwrap(compiler_options.paths),
                                                          base_url, order),
                          base_url |-> base_url]))

\* config.rs 250-262: resolve_typescript_paths, of a configuration that names no other
\* file than tsconfig.json
resolve_typescript_paths(cfg, files, order) ==
  IF cfg.typescript THEN resolve_tsconfig_paths(files, 1, order) ELSE Ok(None)

\* the text of a string of characters
RECURSIVE StrOf(_)
StrOf(chars) == IF chars = <<>> THEN "" ELSE Head(chars) \o StrOf(Tail(chars))

\* a path of characters as the installer walks it, segment by segment
Segments(path) ==
  LET parts == SelectSeq(Split(path, "/"), LAMBDA part : part /= <<>>) IN
  [i \in DOMAIN parts |-> StrOf(parts[i])]

\* the table of a ResolvedPaths as the installer iterates over it, in the given order
TableInOrder(resolved, order) ==
  [i \in DOMAIN order |-> <<Segments(order[i]), Segments(resolved.paths[order[i]])>>]

\* installer.rs 52: resolve_typescript_paths().unwrap_or(None)
UnwrapOrNone(result) == IF result.ok THEN result.value ELSE None

----------------------------------------------------------------------------
\* The tsconfig files the path mappings are resolved from

Chars(c, n) == [i \in 1..n |-> c]

AtAlias == <<"@", "/", "*">>
LibAlias == <<"$", "l", "i", "b">>

\* what the file at place k of a chain declares: each file has targets and a base URL of
\* its own, so that an entry tells the file it comes from
AtTarget(k) == <<".", "/">> \o Chars("s", k) \o <<"/", "*">>
LibTarget(k) == Chars("l", k)
BaseUrl(k) == Chars("b", k)

PathsOf(k) ==
  {None,
   Some(AtAlias :> <<AtTarget(k)>>),
   Some(LibAlias :> <<LibTarget(k)>>),
   Some((AtAlias :> <<AtTarget(k)>>) @@ (LibAlias :> <<LibTarget(k)>>))}

CompilerOptionsOf(k) ==
  {None} \cup {Some([paths |-> paths, base_url |-> base_url]) :
                 paths \in PathsOf(k), base_url \in {None, Some(BaseUrl(k))}}

\* a file that parses, and one that does not
TsFile(extends, compiler_options) ==
  [parses |-> TRUE, extends |-> extends, compiler_options |-> compiler_options]

Unparseable == [parses |-> FALSE, extends |-> None, compiler_options |-> None]

\* the file at place k: it extends nothing, or the file at the next place, which may be
\* missing
TsFilesAt(k) ==
  {Unparseable} \cup {TsFile(extends, compiler_options) :
                        extends \in {None, Some(k + 1)},
                        compiler_options \in CompilerOptionsOf(k)}

\* aliases and targets with wildcards in every place
WildAliases ==
  {<<"a">>, <<"a", "/", "*">>, <<"a", "*">>, <<"a", "*", "/", "*">>, <<"*">>}

WildTargets ==
  {<<"t">>, <<"t", "/", "*">>, <<"t", "*">>, <<"t", "/", "*", "/">>,
   <<".", "/", "t", "/", "*">>, <<".", ".", "/", "t">>, <<"/", "r", "/", "t", "/", "*">>,
   <<"*">>, <<"t", "/", "*", "/", ".">>}

\* the files at the places k to n of a chain, each but the last extending the next
RECURSIVE ChainsFrom(_, _)
ChainsFrom(k, n) ==
  IF k = n THEN {<<file>> : file \in TsFilesAt(k)}
  ELSE {<<file>> \o rest :
          file \in {f \in TsFilesAt(k) : f.parses /\ f.extends = Some(k + 1)},
          rest \in ChainsFrom(k + 1, n)}

\* the chains of at most MaxChain files, and tsconfig.json alone with one alias of any
\* shape
TsFileSets(files) ==
  \/ files = <<>>
  \/ \E n \in 1..MaxChain : files \in ChainsFrom(1, n)
  \/ \E alias \in WildAliases, target \in WildTargets, more \in {<<>>, <<<<"u", "*">>>>},
        base_url \in {None, Some(<<"b">>)} :
       files = <<TsFile(None, Some([paths |-> Some(alias :> (<<target>> \o more)),
                                    base_url |-> base_url]))>>
  \/ \E alias \in WildAliases :
       files = <<TsFile(None, Some([paths |-> Some(alias :> <<>>), base_url |-> None]))>>

InitTs ==
  /\ config \in {DefaultConfig, TestConfig}
  /\ typescript_paths = None
  /\ package_manager = None
  /\ disk = <<>>
  /\ down = {}
  /\ stack = <<>>
  /\ outcome = "none"
  /\ trace = <<>>
  /\ wrote = <<>>
  /\ inst = [name |-> "", ns |-> None, force |-> FALSE, skip_deps |-> FALSE,
             others |-> <<>>, disk0 |-> <<>>]
  /\ repeat = FALSE
  /\ edits = <<>>
  /\ regChanged = FALSE
  /\ chk = None
  /\ nInstalls = 0
  /\ denv = NoDetectEnv
  /\ detection = None
  /\ spawned = <<>>
  /\ host = WorkingHost
  /\ status = None
  /\ registry_manager = NoManager
  /\ auto = None
  /\ TsFileSets(tsfiles)
  /\ call = None
  /\ answer = None

TsFrame ==
  UNCHANGED <<config, package_manager, disk, down, stack, outcome, trace, wrote, inst,
              repeat, edits, regChanged, chk, nInstalls, denv, detection, spawned, host,
              status, registry_manager, auto, tsfiles>>

\* config.rs 271: resolve_tsconfig_with_extends(config_path), of the tsconfig.json that
\* exists
ResolveTsconfigWithExtends ==
  /\ call = None
  /\ 1 \in DOMAIN tsfiles
  /\ call' = Some([fn |-> "resolve_tsconfig_with_extends"])
  /\ answer' = Some(resolve_tsconfig_with_extends(tsfiles, 1))
  /\ UNCHANGED typescript_paths
  /\ TsFrame

\* installer.rs 52: ComponentInstaller::new resolves the path mappings, and goes on
\* without a table when the resolution fails
ResolveTypescriptPaths ==
  /\ call = None
  /\ \E order \in Perms(MergedKeys(tsfiles, 1)) :
       LET result == resolve_typescript_paths(config, tsfiles, order)
           resolved == UnwrapOrNone(result)
       IN /\ call' = Some([fn |-> "resolve_typescript_paths"])
          /\ answer' = Some(result)
          /\ \E iteration \in
                  Perms(IF resolved = None THEN {} ELSE DOMAIN Unwrap(resolved).paths) :
               typescript_paths' =
                 IF resolved = None THEN None
                 ELSE Some(TableInOrder(Unwrap(resolved), iteration))
  /\ TsFrame

NextTs ==
  \/ ResolveTsconfigWithExtends
  \/ ResolveTypescriptPaths

SpecTs == InitTs /\ [][NextTs]_vars

----------------------------------------------------------------------------
\* What the claims say of the path mappings

Called(name) == call /= None /\ Unwrap(call).fn = name

\* the files of the chain that starts at tsconfig.json, nearest first
ExtendsChain ==
  {k \in DOMAIN tsfiles :
     \A j \in 1..(k - 1) : tsfiles[j].parses /\ tsfiles[j].extends = Some(j + 1)}

DeclaresPaths(k) ==
  /\ tsfiles[k].parses
  /\ tsfiles[k].compiler_options /= None
  /\ Unwrap(tsfiles[k].compiler_options).paths /= None

DeclaredPaths(k) == Unwrap(Unwrap(tsfiles[k].compiler_options).paths)

Declares(k, alias) == DeclaresPaths(k) /\ alias \in DOMAIN DeclaredPaths(k)

DeclaresBaseUrl(k) ==
  /\ tsfiles[k].parses
  /\ tsfiles[k].compiler_options /= None
  /\ Unwrap(tsfiles[k].compiler_options).base_url /= None

\* the nearest file of the chain of which the predicate holds
Nearest(P(_)) == CHOOSE k \in ExtendsChain : P(k) /\ \A j \in ExtendsChain : P(j) => k <= j

MergedPaths(tsconfig) ==
  IF tsconfig.compiler_options = None THEN <<>>
  ELSE UnwrapOr(Unwrap(tsconfig.compiler_options).paths, <<>>)

MergedBaseUrl(tsconfig) ==
  IF tsconfig.compiler_options = None THEN None
  ELSE Unwrap(tsconfig.compiler_options).base_url

\* C21: the merge of a chain of extends of any depth keeps, for every alias key, the entry
\* of the nearest file of the chain that declares it, the child first, and has no other
\* key; the base URL is that of the nearest file that declares one, and "." when none
\* does; merging the extended file a second time changes nothing
C21_ChildWinsMerge ==
  /\ (Called("resolve_tsconfig_with_extends") /\ Unwrap(answer).ok) =>
       LET tsconfig == Unwrap(answer).value
           extended == resolve_tsconfig_with_extends(tsfiles, 2)
       IN /\ DOMAIN MergedPaths(tsconfig) =
               {alias \in {AtAlias, LibAlias} \cup WildAliases :
                  \E k \in ExtendsChain : Declares(k, alias)}
          /\ \A alias \in DOMAIN MergedPaths(tsconfig) :
               MergedPaths(tsconfig)[alias] =
                 DeclaredPaths(Nearest(LAMBDA k : Declares(k, alias)))[alias]
          /\ MergedBaseUrl(tsconfig) =
               IF \E k \in ExtendsChain : DeclaresBaseUrl(k)
               THEN Unwrap(tsfiles[Nearest(DeclaresBaseUrl)].compiler_options).base_url
               ELSE None
          /\ (2 \in ExtendsChain /\ extended.ok) =>
               merge(tsconfig, extended.value) = tsconfig
  /\ (/\ Called("resolve_typescript_paths")
      /\ Unwrap(answer).ok
      /\ Unwrap(answer).value /= None) =>
       Unwrap(Unwrap(answer).value).base_url =
         IF \E k \in ExtendsChain : DeclaresBaseUrl(k)
         THEN Unwrap(Unwrap(tsfiles[Nearest(DeclaresBaseUrl)].compiler_options).base_url)
         ELSE <<".">>

\* a chain of three files is merged: the alias of the child is declared by the
\* grandparent too, another alias by the grandparent alone, the base URL by the parent
\* alone
C21_Witness ==
  /\ Called("resolve_tsconfig_with_extends")
  /\ Unwrap(answer).ok
  /\ ExtendsChain = {1, 2, 3}
  /\ Declares(1, AtAlias) /\ Declares(3, AtAlias)
  /\ \A k \in 1..3 : Declares(k, LibAlias) <=> k = 3
  /\ \A k \in 1..3 : DeclaresBaseUrl(k) <=> k = 2
  /\ MergedPaths(Unwrap(answer).value) =
       (AtAlias :> <<AtTarget(1)>>) @@ (LibAlias :> <<LibTarget(3)>>)
  /\ MergedBaseUrl(Unwrap(answer).value) = Some(BaseUrl(2))

\* tsconfig.json parses and extends a file that exists
ExtendsExisting ==
  /\ 1 \in DOMAIN tsfiles /\ tsfiles[1].parses
  /\ tsfiles[1].extends /= None
  /\ Unwrap(tsfiles[1].extends) \in DOMAIN tsfiles

\* tsconfig.json alone, as it would be without its extends field
WithoutExtends == <<[tsfiles[1] EXCEPT !.extends = None]>>

\* the result is what the resolution of the child without its extends field yields
AsWithoutExtends ==
  /\ \E order \in Perms(MergedKeys(WithoutExtends, 1)) :
       Unwrap(answer) = resolve_typescript_paths(config, WithoutExtends, order)
  /\ typescript_paths = None <=> UnwrapOrNone(Unwrap(answer)) = None

\* C22: when the file named by extends exists but cannot be parsed, the resolution does
\* not fail and the installer has the table of the child's own mappings, as if the child
\* had no extends field
C22_UnparseableExtendsIgnored ==
  (/\ Called("resolve_typescript_paths")
   /\ ExtendsExisting
   /\ ~tsfiles[Unwrap(tsfiles[1].extends)].parses) =>
    /\ Unwrap(answer).ok
    /\ AsWithoutExtends

\* tsconfig.json parses and extends a file that does not exist
ExtendsMissing ==
  /\ 1 \in DOMAIN tsfiles /\ tsfiles[1].parses
  /\ tsfiles[1].extends /= None
  /\ Unwrap(tsfiles[1].extends) \notin DOMAIN tsfiles

\* C23: when the file named by extends does not exist, the resolution succeeds and yields
\* the mappings and the base URL the child yields without its extends field
C23_MissingExtendsIgnored ==
  ExtendsMissing =>
    /\ Called("resolve_typescript_paths") =>
         /\ Unwrap(answer).ok
         /\ AsWithoutExtends
    /\ Called("resolve_tsconfig_with_extends") =>
         /\ Unwrap(answer).ok
         /\ Unwrap(answer).value.compiler_options = tsfiles[1].compiler_options

\* a child with two mappings and a base URL of its own, whose extended file is missing,
\* has been resolved into a table
C23_Witness ==
  /\ ExtendsMissing
  /\ Called("resolve_typescript_paths")
  /\ DeclaresBaseUrl(1)
  /\ Declares(1, AtAlias) /\ Declares(1, LibAlias)
  /\ Unwrap(answer).ok
  /\ Unwrap(answer).value /= None
  /\ DOMAIN Unwrap(Unwrap(answer).value).paths = {<<"@">>, LibAlias}
  /\ typescript_paths /= None

\* the table that resolve_typescript_paths returned
ResolvedTable == Unwrap(Unwrap(answer).value).paths

TableResolved ==
  /\ Called("resolve_typescript_paths")
  /\ Unwrap(answer).ok
  /\ Unwrap(answer).value /= None

\* C24: in every table that the resolution produces, no alias key and no target value
\* ends with a wildcard marker, "/*" or "*", whatever the aliases and targets declared
C24_NoTrailingWildcard ==
  TableResolved =>
    \A alias \in DOMAIN ResolvedTable :
      /\ ~EndsWith(alias, <<"*">>)
      /\ ~EndsWith(ResolvedTable[alias], <<"*">>)

----------------------------------------------------------------------------
\* The installer's paths and placeholders, over the configurations a project can have

ComponentTypes ==
  {None, Some("registry:hook"), Some("registry:ui"), Some("registry:util"),
   Some("registry:lib"), Some("registry:block")}

\* the declared targets of a component file
Targets ==
  {<<"button", "button.tsx">>, <<"ui", "dialog.tsx">>, <<"ui">>, <<"badge.tsx">>,
   <<"ui", "ui", "x.tsx">>}

\* the templates of a component file: each placeholder on a line of its own, followed by
\* .js outside an import, and followed by .js inside a static and inside a dynamic import
Templates(placeholder) ==
  {<<placeholder, "\n">>,
   <<"x", " ", placeholder, ".js", " ", "y">>,
   <<"import", " ", "'", placeholder, ".js", "'", "\n", placeholder, ".js">>,
   <<"import", "(", "'", placeholder, ".js", "'", ")">>,
   <<"import", " ", "'", placeholder, "/", "card", "'">>}

Placeholders == {"$UTILS$", "$COMPONENTS$", "$HOOKS$", "$LIB$"}

\* the path-mapping tables of the installer, in every order of iteration
ResolveTables(cfg) ==
  IF cfg.typescript
  THEN UNION {Orderings(tsp) :
                tsp \in {None,
                         Some(<<<<(<<"$lib">>), (<<"src", "lib">>)>>>>),
                         Some(<<<<(<<"$lib">>), (<<"src", "lib">>)>>,
                                <<(<<"lib">>), (<<"app">>)>>>>),
                         Some(<<<<(<<"$lib">>), (<<"src", "lib">>)>>,
                                <<(<<"$lib", "components">>), (<<"src", "ui-kit">>)>>>>)}}
  ELSE {None}

\* the configurations: every alias but utils in several shapes, the optional ones also
\* missing
ResolveConfigs(cfg) ==
  \E components \in {<<"src", "lib", "components">>, <<"$lib", "components">>},
     ui \in {None, Some(<<"$lib", "components", "ui">>), Some(<<"lib", "components", "ui">>),
             Some(<<"lib", "widgets">>)},
     hooks \in {None, Some(<<"$lib", "hooks">>)},
     lib \in {None, Some(<<"src", "lib">>), Some(<<"app">>)},
     typescript \in BOOLEAN :
    cfg = [aliases |-> [components |-> components, utils |-> <<"$lib", "utils">>,
                        ui |-> ui, hooks |-> hooks, lib |-> lib],
           typescript |-> typescript]

InitResolve ==
  /\ ResolveConfigs(config)
  /\ typescript_paths \in ResolveTables(config)
  /\ package_manager = None
  /\ disk = <<>>
  /\ down = {}
  /\ stack = <<>>
  /\ outcome = "none"
  /\ trace = <<>>
  /\ wrote = <<>>
  /\ inst = [name |-> "", ns |-> None, force |-> FALSE, skip_deps |-> FALSE,
             others |-> <<>>, disk0 |-> <<>>]
  /\ repeat = FALSE
  /\ edits = <<>>
  /\ regChanged = FALSE
  /\ chk = None
  /\ nInstalls = 0
  /\ denv = NoDetectEnv
  /\ detection = None
  /\ spawned = <<>>
  /\ host = WorkingHost
  /\ status = None
  /\ registry_manager = NoManager
  /\ auto = None
  /\ tsfiles = <<>>
  /\ call = None
  /\ answer = None

ResolveFrame ==
  UNCHANGED <<config, typescript_paths, package_manager, disk, down, stack, outcome,
              trace, wrote, inst, repeat, edits, regChanged, chk, nInstalls, denv,
              detection, spawned, host, status, registry_manager, auto, tsfiles>>

\* installer.rs 633: get_alias_for_component_type(context.component_type.as_deref())
GetAliasForComponentType(component_type) ==
  /\ call = None
  /\ call' = Some([fn |-> "get_alias_for_component_type",
                   component_type |-> component_type])
  /\ answer' = Some(get_alias_for_component_type(component_type))
  /\ ResolveFrame

\* installer.rs 641: resolve_path_manually(alias_path), of the alias of a component type
ResolvePathManually(component_type) ==
  /\ call = None
  /\ LET alias_path == get_alias_for_component_type(component_type) IN
       /\ call' = Some([fn |-> "resolve_path_manually", ui_path |-> alias_path])
       /\ answer' = Some(resolve_path_manually(alias_path))
  /\ ResolveFrame

\* installer.rs 593-627, 1239-1257: a component of one file is installed into an empty
\* project by install_file, and is_component_outdated then compares its file
InstallThenCompare(target, component_type) ==
  /\ call = None
  /\ LET file == File(Some(target), None, PlainContent)
         component == Comp("button", component_type, None, None, None, <<file>>)
         installed == install_file(<<>>, file, create_component_context(component), FALSE)
     IN /\ call' = Some([fn |-> "install_file", target |-> target,
                         component_type |-> component_type])
        /\ answer' = Some([err |-> installed.err, path |-> installed.path,
                           differs |-> FilesDiffer(installed.disk, component)])
  /\ ResolveFrame

\* installer.rs 615: process_placeholders(&file.content, Some(context)), and 1268
\* without a context
ProcessPlaceholders(content, context) ==
  /\ call = None
  /\ call' = Some([fn |-> "process_placeholders", content |-> content,
                   context |-> context])
  /\ answer' = Some(process_placeholders(content, context))
  /\ ResolveFrame

NextResolve ==
  \/ \E component_type \in ComponentTypes : GetAliasForComponentType(component_type)
  \/ \E component_type \in ComponentTypes : ResolvePathManually(component_type)
  \/ \E target \in Targets, component_type \in ComponentTypes :
       InstallThenCompare(target, component_type)
  \/ \E placeholder \in Placeholders :
       \E content \in Templates(placeholder),
          context \in {None} \cup
                      {Some([name |-> "button", component_type |-> component_type,
                             registry |-> None]) : component_type \in ComponentTypes} :
         ProcessPlaceholders(content, context)

SpecResolve == InitResolve /\ [][NextResolve]_vars

----------------------------------------------------------------------------
\* What the claims say of the installer's paths

\* the alias a category has of its own, when the configuration has one
OwnAlias(component_type) ==
  CASE component_type = Some("registry:hook") -> config.aliases.hooks
    [] component_type = Some("registry:ui") -> config.aliases.ui
    [] component_type = Some("registry:util") -> Some(config.aliases.utils)
    [] component_type = Some("registry:lib") -> config.aliases.lib
    [] OTHER -> Some(config.aliases.components)

\* C25: the alias root of a component is that of its category, hooks for registry:hook,
\* ui for registry:ui, utils for registry:util, lib for registry:lib and components for
\* any other or no category, and components when the category's own alias is not
\* configured
C25_AliasByCategory ==
  Called("get_alias_for_component_type") =>
    LET own == OwnAlias(Unwrap(call).component_type) IN
    Unwrap(answer) = IF own = None THEN config.aliases.components ELSE Unwrap(own)

\* the alias of a hook has been asked for in a project without a hooks alias, whose
\* ui alias is configured and is not the components alias
C25_Witness ==
  /\ Called("get_alias_for_component_type")
  /\ Unwrap(call).component_type = Some("registry:hook")
  /\ config.aliases.hooks = None
  /\ config.aliases.ui /= None
  /\ Unwrap(answer) = config.aliases.components
  /\ Unwrap(answer) /= Unwrap(config.aliases.ui)

\* the resolved alias root of the category of the call
AliasRoot == ResolveAlias(get_alias_for_component_type(Unwrap(call).component_type))

\* the special case of a ui target under a ui root
UiUnderUi ==
  /\ Unwrap(call).component_type = Some("registry:ui")
  /\ Len(Unwrap(call).target) >= 2 /\ Unwrap(call).target[1] = "ui"
  /\ Len(AliasRoot) >= 2 /\ AliasRoot[Len(AliasRoot)] = "ui"

\* C26: without the ui/ui special case, a file of target T and category C is installed
\* at the resolved alias root of C followed by T, under the current directory, and
\* is_component_outdated finds the installed file at that same path
C26_InstallPathIsRootThenTarget ==
  (Called("install_file") /\ ~UiUnderUi) =>
    /\ Unwrap(answer).err = ""
    /\ Unwrap(answer).path = AliasRoot \o Unwrap(call).target
    /\ ~Unwrap(answer).differs

\* registry:ui with the ui alias lib/components/ui and the target button/button.tsx
C26_Witness ==
  /\ Called("install_file")
  /\ typescript_paths = None
  /\ config.aliases.ui = Some(<<"lib", "components", "ui">>)
  /\ Unwrap(call).component_type = Some("registry:ui")
  /\ Unwrap(call).target = <<"button", "button.tsx">>
  /\ Unwrap(answer).path = <<"lib", "components", "ui", "button", "button.tsx">>
  /\ ~Unwrap(answer).differs

\* C27: without a path-mapping table, the manual fallback replaces $lib in an alias by
\* the lib alias of the configuration, by src/lib when there is none, and returns an
\* alias without $lib as it is
C27_ManualFallback ==
  (Called("resolve_path_manually") /\ typescript_paths = None) =>
    LET ui_path == Unwrap(call).ui_path
        lib == IF config.aliases.lib = None THEN <<"src", "lib">>
               ELSE Unwrap(config.aliases.lib)
    IN /\ (\A i \in 1..Len(ui_path) : ui_path[i] /= "$lib") => Unwrap(answer) = ui_path
       /\ (ui_path /= <<>> /\ ui_path[1] = "$lib"
            /\ \A i \in 2..Len(ui_path) : ui_path[i] /= "$lib") =>
            Unwrap(answer) = lib \o Tail(ui_path)

\* $lib/components/ui with the lib alias src/lib
C27_Witness ==
  /\ Called("resolve_path_manually")
  /\ typescript_paths = None
  /\ config.aliases.lib = Some(<<"src", "lib">>)
  /\ Unwrap(call).ui_path = <<"$lib", "components", "ui">>
  /\ Unwrap(answer) = <<"src", "lib", "components", "ui">>

HooksImportPath ==
  LET hooks_path == UnwrapOr(config.aliases.hooks, config.aliases.components) IN
  ImportPath(hooks_path, resolve_import_path_manually(hooks_path))

\* C29: $HOOKS$ is replaced by the hooks alias in every context: that of a hook, that of
\* a component of any other category, and none
C29_HooksAliasInEveryContext ==
  (Called("process_placeholders") /\ Unwrap(call).content = <<"$HOOKS$", "\n">>) =>
    Unwrap(answer) = PathText(HooksImportPath) \o <<"\n">>

\* the template without the .js that follows one of the four placeholders
RECURSIVE WithoutPlaceholderJs(_)
WithoutPlaceholderJs(content) ==
  IF Len(content) < 2 THEN content
  ELSE IF content[1] \in Placeholders /\ content[2] = ".js"
  THEN <<content[1]>> \o WithoutPlaceholderJs(SubSeq(content, 3, Len(content)))
  ELSE <<content[1]>> \o WithoutPlaceholderJs(Tail(content))

\* C30: with TypeScript on, the .js after a placeholder is removed from the template
\* before the placeholders are substituted: wherever $UTILS$.js, $COMPONENTS$.js,
\* $HOOKS$.js or $LIB$.js stands in the input, the output has the resolved alias path
\* without .js, as it has for the template written without that .js
C30_PlaceholderJsRemovedFirst ==
  (Called("process_placeholders") /\ config.typescript) =>
    Unwrap(answer) =
      process_placeholders(WithoutPlaceholderJs(Unwrap(call).content), Unwrap(call).context)

----------------------------------------------------------------------------
\* installer.rs 1101-1199, 1361-1376: the installed components and the outdated list

MaxEntries == 3

\* str::split('.') over the entry names of the model; a name without a dot is one part
split(name) ==
  CASE name = "card.tsx" -> <<"card", "tsx">>
    [] name = "badge.tsx" -> <<"badge", "tsx">>
    [] name = "button.tsx" -> <<"button", "tsx">>
    [] name = "dialog.tsx" -> <<"dialog", "tsx">>
    [] name = "index.ts" -> <<"index", "ts">>
    [] name = "index.svelte" -> <<"index", "svelte">>
    [] name = "button.css" -> <<"button", "css">>
    [] name = "button.test.tsx" -> <<"button", "test", "tsx">>
    [] name = "types.d.ts" -> <<"types", "d", "ts">>
    [] name = "card.js.map" -> <<"card", "js", "map">>
    [] name = ".gitkeep" -> <<"", "gitkeep">>
    [] name = ".cache" -> <<"", "cache">>
    [] OTHER -> <<name>>

\* name.starts_with('.')
starts_with_dot(name) == Len(split(name)) > 1 /\ split(name)[1] = ""

\* name.ends_with(".d.ts") and name.ends_with(".map")
ends_with_d_ts(name) ==
  LET parts == split(name) IN
  Len(parts) >= 3 /\ parts[Len(parts) - 1] = "d" /\ parts[Len(parts)] = "ts"

ends_with_map(name) ==
  LET parts == split(name) IN Len(parts) >= 2 /\ parts[Len(parts)] = "map"

\* str::cmp on the names a listing of the model can hold
ByteOrder == <<"badge", "button", "card", "dialog", "index", "types", "ui">>

ByteRank(name) == CHOOSE i \in 1..Len(ByteOrder) : ByteOrder[i] = name

\* Vec::sort
RECURSIVE Insert(_, _)
Insert(sorted, name) ==
  IF sorted = <<>> THEN <<name>>
  ELSE IF ByteRank(name) < ByteRank(Head(sorted)) THEN <<name>> \o sorted
  ELSE <<Head(sorted)>> \o Insert(Tail(sorted), name)

RECURSIVE sort(_)
sort(v) == IF v = <<>> THEN <<>> ELSE Insert(sort(Tail(v)), Head(v))

\* Vec::dedup: of equal neighbours the first stays
RECURSIVE dedup(_)
dedup(v) ==
  IF Len(v) < 2 THEN v
  ELSE IF v[1] = v[2] THEN dedup(Tail(v))
  ELSE <<v[1]>> \o dedup(Tail(v))

\* fs::read_dir(dir): the entries right below dir, each with what is_dir() says of it
read_dir(d, dir) ==
  {[file_name |-> p[Len(dir) + 1], is_dir |-> Len(p) > Len(dir) + 1] :
     p \in {q \in DOMAIN d : Len(q) > Len(dir) /\ StartsWith(q, dir)}}

\* installer.rs 1165-1191: what one entry adds to the list, if anything
ListedAs(entry) ==
  LET name == entry.file_name IN
  IF entry.is_dir
  THEN IF ~starts_with_dot(name) /\ name /= "index.ts" /\ name /= "index.js"
       THEN <<name>> ELSE <<>>
  ELSE IF /\ ~starts_with_dot(name)
          /\ ~ends_with_d_ts(name)
          /\ ~ends_with_map(name)
          /\ name /= "index.ts"
          /\ name /= "index.js"
       THEN IF split(name)[1] /= "" THEN <<split(name)[1]>> ELSE <<>>
       ELSE <<>>

RECURSIVE Listed(_)
Listed(entries) ==
  IF entries = <<>> THEN <<>> ELSE ListedAs(Head(entries)) \o Listed(Tail(entries))

\* get_installed_components, the entries coming in the order read_dir yields them
get_installed_components(d, entries) ==
  IF ~Exists(d, components_dir) THEN Ok(<<>>)
  ELSE IF IsFile(d, components_dir) THEN Err("read_dir")
  ELSE Ok(dedup(sort(Listed(entries))))

\* check_outdated_components as it would be if the list ended at the first name the
\* registry does not answer for
RECURSIVE check_outdated_components_UntilFetchErr(_, _, _, _)
check_outdated_components_UntilFetchErr(d, component_names, registry_namespace, others) ==
  IF component_names = <<>> THEN Ok(<<>>)
  ELSE IF ~IsSome(Fetch(registry_namespace, Head(component_names), others)) THEN Ok(<<>>)
  ELSE Ok(<<<<Head(component_names),
             is_component_outdated(d, Head(component_names), registry_namespace, others)>>>>
          \o check_outdated_components_UntilFetchErr(d, Tail(component_names),
                                                     registry_namespace, others).value)

\* check_outdated_components: is_component_outdated returns no error on any path of the
\* model, so the `?` never leaves the loop
RECURSIVE check_outdated_components(_, _, _, _)
check_outdated_components(d, component_names, registry_namespace, others) ==
  IF component_names = <<>> THEN Ok(<<>>)
  ELSE Ok(<<<<Head(component_names),
             is_component_outdated(d, Head(component_names), registry_namespace, others)>>>>
          \o check_outdated_components(d, Tail(component_names),
                                       registry_namespace, others).value)

\* the projects whose components are listed: files and directories below the ui
\* directory, one file beside it
UiDir == <<"src", "lib", "components", "ui">>

Fragments ==
  {UiDir \o <<"card.tsx">> :> UserContent,
   UiDir \o <<"badge.tsx">> :> AcmeContent,
   UiDir \o <<"index.ts">> :> UserContent,
   UiDir \o <<"index.svelte">> :> UserContent,
   UiDir \o <<"button.css">> :> UserContent,
   UiDir \o <<"button.test.tsx">> :> UserContent,
   UiDir \o <<"types.d.ts">> :> UserContent,
   UiDir \o <<"card.js.map">> :> UserContent,
   UiDir \o <<".gitkeep">> :> <<>>,
   UiDir \o <<"button", "button.tsx">> :> PlainContent,
   UiDir \o <<"card", "index.ts">> :> UserContent,
   UiDir \o <<".cache", "card.tsx">> :> UserContent,
   <<"src", "lib", "components", "dialog.tsx">> :> UserContent}

RECURSIVE Merged(_)
Merged(fragments) ==
  IF fragments = {} THEN <<>>
  ELSE LET f == CHOOSE g \in fragments : TRUE IN f @@ Merged(fragments \ {f})

InstalledDisks(d) ==
  \/ \E fragments \in SUBSET Fragments :
       Cardinality(fragments) <= MaxEntries /\ d = Merged(fragments)
  \/ d = (UiDir :> UserContent)

\* the names the CLI may ask about
AskedNames == {"button", "card", "badge", "index", "types", ".cache", "ghost", "ui"}

AskedLists == {<<"card", "button">>, <<"button", "ghost", "button">>, <<"index", "card">>}

InitInstalled ==
  /\ config \in {TestConfig, [TestConfig EXCEPT !.aliases.ui = None]}
  /\ typescript_paths = None
  /\ package_manager = None
  /\ InstalledDisks(disk)
  /\ down \in {{}, {"default"}}
  /\ stack = <<>>
  /\ outcome = "none"
  /\ trace = <<>>
  /\ wrote = <<>>
  /\ inst = [name |-> "", ns |-> None, force |-> FALSE, skip_deps |-> FALSE,
             others |-> <<"@acme">>, disk0 |-> <<>>]
  /\ repeat = FALSE
  /\ edits = <<>>
  /\ regChanged = FALSE
  /\ chk = None
  /\ nInstalls = 0
  /\ denv = NoDetectEnv
  /\ detection = None
  /\ spawned = <<>>
  /\ host = WorkingHost
  /\ status = None
  /\ registry_manager = NoManager
  /\ auto = None
  /\ tsfiles = <<>>
  /\ call = None
  /\ answer = None

\* main.rs 319: installer.get_installed_components()
GetInstalledComponents ==
  /\ call = None
  /\ \E entries \in Perms(read_dir(disk, components_dir)) :
       /\ call' = Some([fn |-> "get_installed_components"])
       /\ answer' = Some(get_installed_components(disk, entries))
  /\ ResolveFrame

\* installer.rs 1208: is_component_installed(component_name)
IsComponentInstalled(component_name) ==
  /\ call = None
  /\ call' = Some([fn |-> "is_component_installed", component_name |-> component_name])
  /\ answer' = Some(is_component_installed(disk, component_name))
  /\ ResolveFrame

\* main.rs 326-328: check_outdated_components(&installed_components, registry), and the
\* same call with other lists
CheckOutdatedComponents(component_names, registry_namespace) ==
  /\ call = None
  /\ call' = Some([fn |-> "check_outdated_components",
                   component_names |-> component_names,
                   registry_namespace |-> registry_namespace])
  /\ answer' = Some(check_outdated_components(disk, component_names, registry_namespace,
                                              inst.others))
  /\ ResolveFrame

\* the list handle_outdated passes on: what get_installed_components returned
InstalledList ==
  LET got == get_installed_components(
               disk, CHOOSE entries \in Perms(read_dir(disk, components_dir)) : TRUE)
  IN IF got.ok THEN got.value ELSE <<>>

NextInstalled ==
  \/ GetInstalledComponents
  \/ \E component_name \in AskedNames : IsComponentInstalled(component_name)
  \/ \E component_names \in AskedLists \cup {InstalledList}, registry_namespace \in NsArgs :
       CheckOutdatedComponents(component_names, registry_namespace)

SpecInstalled == InitInstalled /\ [][NextInstalled]_vars

----------------------------------------------------------------------------
\* What the claims say of the installed components

Range(v) == {v[i] : i \in 1..Len(v)}

Returned(name) == Called(name) /\ Unwrap(answer).ok

\* the entries right below the resolved ui directory
UiEntries == read_dir(disk, components_dir)

Hidden(name) == starts_with_dot(name)

\* a file named index with any extension
IndexFile(name) == Len(split(name)) >= 2 /\ split(name)[1] = "index"

\* a file name with its extension stripped: all of it up to the last dot
ExtensionStripped(name) ==
  IF name \in DOMAIN NameParts THEN NameParts[name][1] ELSE name

\* the names the listing is said to hold
SaidListed ==
  {e.file_name : e \in {x \in UiEntries : x.is_dir /\ ~Hidden(x.file_name)}}
  \cup {ExtensionStripped(e.file_name) :
          e \in {x \in UiEntries : /\ ~x.is_dir
                                   /\ ~Hidden(x.file_name)
                                   /\ ~ends_with_d_ts(x.file_name)
                                   /\ ~ends_with_map(x.file_name)
                                   /\ ~IndexFile(x.file_name)}}

\* C31: get_installed_components lists, from the resolved ui directory only and not
\* below it, each non-hidden subdirectory by its name and each file by its name without
\* the extension, leaving out hidden files, .d.ts files, .map files and every file named
\* index whatever its extension; the list is sorted and holds no name twice
C31_ListsUiDirectory ==
  Returned("get_installed_components") =>
    LET installed == Unwrap(answer).value IN
    /\ Range(installed) = SaidListed
    /\ \A i \in 1..Len(installed), j \in 1..Len(installed) :
         i < j => ByteRank(installed[i]) < ByteRank(installed[j])

\* C37: get_installed_components and is_component_installed agree: a name is in the
\* list if and only if is_component_installed says true of it
C37_ListedIffInstalled ==
  Returned("get_installed_components") =>
    \A name \in AskedNames \cup Range(Unwrap(answer).value) :
      name \in Range(Unwrap(answer).value) <=> is_component_installed(disk, name)

\* the call of check_outdated_components that was made, and what it returned
OutdatedCall == Unwrap(call)

OutdatedList == Unwrap(answer).value

\* the registry does not answer for the name: it is down, or does not serve it
FetchFails(name) ==
  ~IsSome(Fetch(OutdatedCall.registry_namespace, name, inst.others))

\* C32: check_outdated_components returns one (name, outdated) pair for each name it
\* was given, in the order given, outdated being what is_component_outdated says of the
\* name; a name the registry does not answer for gets false, and the names after it
\* are checked all the same
C32_OnePairPerName ==
  Called("check_outdated_components") =>
    /\ Unwrap(answer).ok
    /\ Len(OutdatedList) = Len(OutdatedCall.component_names)
    /\ \A i \in 1..Len(OutdatedCall.component_names) :
         LET name == OutdatedCall.component_names[i] IN
         /\ OutdatedList[i][1] = name
         /\ OutdatedList[i][2]
              = is_component_outdated(disk, name, OutdatedCall.registry_namespace,
                                      inst.others)
         /\ FetchFails(name) => OutdatedList[i][2] = FALSE

\* an installed name the registry does not answer for, followed by a name found outdated
C32_Witness ==
  /\ Called("check_outdated_components")
  /\ \E i \in 1..Len(OutdatedCall.component_names) :
       /\ is_component_installed(disk, OutdatedCall.component_names[i])
       /\ FetchFails(OutdatedCall.component_names[i])
       /\ \E j \in (i + 1)..Len(OutdatedList) : OutdatedList[j][2] = TRUE

----------------------------------------------------------------------------
\* What the claims say of the registry dependencies and the package dependencies

LastEvent == trace[Len(trace)]

\* the call for the next registry dependency begins
DepBegins == Len(stack) = 1 /\ Len(stack') = 2

\* the dependency's fetch, or the write of one of its files, is about to fail
DepFetchFails ==
  Len(stack) = 2 /\ Top.pc = "fetch" /\ ~IsSome(Fetch(Top.ns, Top.name, inst.others))

DepWriteFails ==
  /\ Len(stack) = 2 /\ Top.pc = "files"
  /\ install_file(disk, CurFile, CurContext, Top.force).err /= ""

\* C33: registry dependencies are installed one at a time in declared order, each
\* finished before the next begins and before a file of the parent is written; when
\* the fetch or a write of a dependency fails, the whole call ends with that error, no
\* file of the parent written, no later dependency begun, nothing retried, and the
\* files of the earlier dependencies still on disk
C33_DependenciesInTurn ==
  [][/\ DepBegins =>
          LET k == stack[1].dep
              deps == RegistryDeps(Unwrap(stack[1].component))
          IN /\ stack'[2].name = deps[k]
             /\ EventNames(EventsAt(2, {"fetch"})) = SubSeq(deps, 1, k - 1)
             /\ EventNames(EventsAt(2, {"done"})) = SubSeq(deps, 1, k - 1)
             /\ k > 1 => LastEvent = <<2, "done", deps[k - 1]>>
             /\ EventsAt(1, {"write"}) = <<>>
     /\ (Len(stack) = 1 /\ Top.pc = "files" /\ ~Top.skip_deps) =>
          EventNames(EventsAt(2, {"done"})) = RegistryDeps(Unwrap(Top.component))
     /\ (DepFetchFails \/ DepWriteFails) =>
          /\ stack' = <<>>
          /\ outcome' \in {"err_fetch", "err_exists", "err_io"}
          /\ DepFetchFails => outcome' = "err_fetch"
          /\ disk' = disk /\ wrote' = wrote
          /\ EventsAt(1, {"write"}) = <<>>
          /\ WrittenFilesKept
     /\ (stack = <<>> /\ Failed) => (trace' = trace \/ nInstalls' = nInstalls + 1)
    ]_vars

\* a call whose first dependency was installed and whose second could not be fetched
C33_Witness ==
  /\ outcome = "err_fetch"
  /\ Len(EventsAt(2, {"done"})) = 1
  /\ LastEvent[1] = 2 /\ LastEvent[2] = "fetch"
  /\ LastEvent[3] = RegistryDeps(Root)[2]
  /\ EventsAt(1, {"write"}) = <<>>
  /\ wrote /= <<>> /\ WrittenFilesKept

\* where install_component would write the files of the component of that name
TargetsOf(name) ==
  IF IsSome(Fetch(inst.ns, name, inst.others))
  THEN LET component == Unwrap(Fetch(inst.ns, name, inst.others)) IN
       {resolve_file_path(get_target_path(component.files[i]),
                          create_component_context(component)) :
          i \in 1..Len(component.files)}
  ELSE {}

\* the direct registry dependencies a target file of which exists: it was there when
\* the call began, or the dependency is listed a second time
BlockedDeps ==
  LET deps == RegistryDeps(Root) IN
  {i \in 1..Len(deps) :
     \/ \E p \in TargetsOf(deps[i]) : Exists(inst.disk0, p)
     \/ TargetsOf(deps[i]) /= {} /\ \E j \in 1..(i - 1) : deps[j] = deps[i]}

FirstBlocked == CHOOSE i \in BlockedDeps : \A j \in BlockedDeps : i <= j

C35_ExplicitNamespaceOnly ==
  [][(stack /= <<>> /\ Top.pc = "fetch" /\ IsSome(inst.ns)) =>
       LET got == client_fetch_component(Unwrap(inst.ns), Top.name) IN
       /\ Top.ns = inst.ns
       /\ IF IsSome(got)
          THEN /\ Len(stack') = Len(stack)
               /\ stack'[Len(stack)].component = got
               /\ Unwrap(got).registry = inst.ns
               /\ outcome' = outcome
          ELSE stack' = <<>> /\ outcome' = "err_fetch"
    ]_vars

\* a dependency fetched from the namespace given although the default registry, asked
\* first without a namespace, serves a component of that name too
C35_Witness ==
  /\ IsSome(inst.ns)
  /\ Len(stack) = 2 /\ IsSome(Top.component)
  /\ Unwrap(Top.component).registry = inst.ns
  /\ IsSome(fetch_component_auto(Top.name, inst.others))
  /\ Unwrap(fetch_component_auto(Top.name, inst.others)).registry = Some("default")

\* the files of the component of the frame are all on disk
FilesOnDisk(frame) ==
  LET component == Unwrap(frame.component) IN
  /\ frame.file = Len(component.files) + 1
  /\ \A i \in 1..Len(component.files) :
       IsFile(disk, resolve_file_path(get_target_path(component.files[i]),
                                      create_component_context(component)))

\* C39: the package manager is run for a component only when all the component's files
\* are written, for the regular dependencies before the dev dependencies; when the
\* command for the regular dependencies ends unsuccessfully the call ends with an
\* error, the command for the dev dependencies is not run, and the files stay
C39_PackagesAfterFiles ==
  [][/\ (stack /= <<>> /\ Top.pc \in {"pkg", "dev"}) =>
          LET component == Unwrap(Top.component) IN
          /\ FilesOnDisk(Top)
          /\ (Top.pc = "pkg" /\ component.files /= <<>>) =>
               LastEvent = <<Len(stack), "write", Top.name>>
          /\ (Top.pc = "dev" /\ Deps(component) /= <<>>) =>
               LastEvent = <<Len(stack), "pkg", Top.name>>
          /\ Top.pc = "pkg" => Deps(component) /= <<>>
          /\ Top.pc = "dev" => DevDeps(component) /= <<>>
     /\ (stack /= <<>> /\ Top.pc = "pkg" /\ stack' /= stack) =>
          \E os \in InstallHosts :
            LET r == install_dependency_type(os, Unwrap(package_manager)) IN
            /\ spawned' = spawned \o r.spawned
            /\ trace' = Append(trace, <<Len(stack), "pkg", Top.name>>)
            /\ disk' = disk /\ wrote' = wrote
            /\ IF r.ok
               THEN outcome' = outcome /\ Len(stack') = Len(stack)
               ELSE outcome' = "err_pkg" /\ stack' = <<>>
     /\ (stack = <<>> /\ outcome = "err_pkg") =>
          (trace' = trace /\ spawned' = spawned) \/ nInstalls' = nInstalls + 1
    ]_vars

\* the command for the regular dependencies failed: the files are on disk, the dev
\* dependencies the component declares were never asked for
C39_Witness ==
  /\ outcome = "err_pkg"
  /\ LastEvent = <<1, "pkg", inst.name>>
  /\ DevDeps(Root) /= <<>>
  /\ EventsAt(1, {"dev"}) = <<>>
  /\ EventsAt(1, {"write"}) /= <<>>
  /\ WrittenFilesKept

----------------------------------------------------------------------------
\* What the claims say of runs that differ in nothing the user controls

\* C36: for a fixed configuration and path-mapping table, two runs resolve the same
\* alias root to the same path, whatever the order their tables iterate in, also when
\* more than one key of the table starts the alias
C36_ResolutionDeterministic ==
  (Called("install_file") /\ IsSome(typescript_paths)) =>
    LET alias_path == get_alias_for_component_type(Unwrap(call).component_type) IN
    \A other \in Orderings(typescript_paths) :
      resolve_path_with_typescript(alias_path, Unwrap(other)) = AliasRoot

\* the lockfiles there are that no other lockfile is newer than
NewestLockfiles ==
  {l \in PresentLockfiles : \A o \in PresentLockfiles : denv.mtime[o] <= denv.mtime[l]}

\* the place of a lockfile in the order yarn.lock, pnpm-lock.yaml, package-lock.json,
\* bun.lockb
LockfilePlace(l) ==
  CASE l = "yarn.lock" -> 1
    [] l = "pnpm-lock.yaml" -> 2
    [] l = "package-lock.json" -> 3
    [] OTHER -> 4

\* C38: when two or more lockfiles share the latest modification time and the lockfile
\* step decides, the detection is the manager of the one of them that comes last in the
\* order yarn.lock, pnpm-lock.yaml, package-lock.json, bun.lockb, the same in every run
C38_TiedLockfilesLastWins ==
  (LockfileStepDecides /\ Cardinality(NewestLockfiles) >= 2
     /\ denv.racing \cap PresentLockfiles = {}) =>
    \A l \in NewestLockfiles :
      (\A o \in NewestLockfiles : LockfilePlace(o) <= LockfilePlace(l)) =>
        /\ Det.ok
        /\ Det.manager = ManagerOfLockfile(l)
        /\ Det.source = "Lockfile" /\ Det.arg = Some(l)

\* yarn.lock and pnpm-lock.yaml modified at the same time, later than package-lock.json:
\* Pnpm
C38_Witness ==
  /\ LockfileStepDecides
  /\ denv.racing = {}
  /\ NewestLockfiles = {"yarn.lock", "pnpm-lock.yaml"}
  /\ "package-lock.json" \in PresentLockfiles
  /\ Det.ok /\ Det.manager = "Pnpm" /\ Det.arg = Some("pnpm-lock.yaml")

============================================================================
